---- MODULE Spec2Model ----
(***************************************************************************)
(* Model of the Interactive Object Manager: the per-world object registry  *)
(* (UInteractiveObjectManagerSubsystem), the interactive component's       *)
(* lifecycle (UInteractiveObjectComponent) and the notifications the       *)
(* registry broadcasts.                                                    *)
(*                                                                         *)
(* Components are numbered 1..NumComponents, 0 is nullptr.  A weak pointer *)
(* (TWeakObjectPtr) is the component's number; it IsValid while the        *)
(* component is alive.  Scales are in ten-thousandths (10000 = 1.0f).      *)
(***************************************************************************)
EXTENDS Integers, Sequences, FiniteSets, TLC

\* ---- bounds --------------------------------------------------------------
NumComponents == 3
MaxObjectId == 3
NumThreads == 2
MaxUpdates == 2
NumWidgetComponents == 2
MaxInput == 1

\* ---- program constants ----------------------------------------------------
INDEX_NONE == -1
NullPtr == 0
FirstObjectId == 1
MinComponentScale == 100
SafeDefaultScale == 10000

Comps == 1..NumComponents
Colors == {"White", "Red"}
ScaleInputs == {0, 25000}
SpawnTypes == {"Cube", "Sphere", "Random"}

VARIABLES
    compState,              \* lifecycle of each component
    CachedManagerSubsystem, \* component -> has a cached manager pointer
    CurrentColor,           \* component -> stored color
    CurrentScale,           \* component -> stored uniform scale
    RegisteredObjects,      \* sequence of [ObjectId, Component]
    NextObjectId,
    SelectedObjectId,
    SelectedObject,
    bDeinitialized,         \* Deinitialize has run, the subsystem is gone
    RuntimeSettings,        \* the settings snapshot used for new objects
    UserIni,                \* GameUserSettings.ini: key -> value of the settings section
    GameIni,                \* Game.ini: key -> value of the settings section
    bHasLoadedConfig,       \* Get has loaded the settings in this process
    SettingsCriticalSection,\* the thread that holds the settings mutex, 0 when free
    pc,                     \* thread -> where it stands in its settings call
    frame,                  \* thread -> locals of its settings call
    returned,               \* thread -> latest value GetRuntimeSettingsCopy gave it
    updateCount,            \* settings updates started so far
    updateValue,            \* update number -> the triple that update wrote
    Editor,                 \* the Editor_ fields of the settings object
    widget,                 \* the root widget and what it delivered to Blueprint
    lastListChanged,        \* payload of the latest OnObjectsListChanged
    lastSelectedChanged,    \* payload of the latest OnSelectedObjectChanged
    bListBroadcast,         \* OnObjectsListChanged was broadcast at least once
    bSelectedBroadcast,     \* OnSelectedObjectChanged was broadcast at least once
    listEverChanged,        \* the object list differed from its first value
    bHasBegunPlay,          \* BeginPlay of the player controller has run
    bIsNavigationModeActive,
    bShowMouseCursor,
    InputMode,              \* the input mode the controller set last
    bNavigationHeld,        \* the navigation action is held down
    RotationInput,          \* <<yaw, pitch>> added since the last tick
    ControlRotation,        \* <<yaw, pitch>> of the controller, in quarter turns
    ControlInputVector,     \* <<x, y, z>> movement input the pawn has pending
    bQuitRequested,         \* QuitGame was called
    op,                     \* the operation that produced this state
    pre                     \* what the operation found when it was called

vars == <<compState, CachedManagerSubsystem, CurrentColor, CurrentScale,
          RegisteredObjects, NextObjectId, SelectedObjectId, SelectedObject,
          bDeinitialized, RuntimeSettings, UserIni, GameIni, bHasLoadedConfig,
          SettingsCriticalSection, pc, frame, returned, updateCount,
          updateValue, Editor, widget, lastListChanged,
          lastSelectedChanged, bListBroadcast, bSelectedBroadcast,
          listEverChanged, bHasBegunPlay, bIsNavigationModeActive,
          bShowMouseCursor, InputMode, bNavigationHeld, RotationInput,
          ControlRotation, ControlInputVector, bQuitRequested, op, pre>>

settingsVars == <<RuntimeSettings, UserIni, GameIni, bHasLoadedConfig>>

threadVars == <<SettingsCriticalSection, pc, frame, returned, updateCount,
                updateValue, Editor>>

controllerVars == <<bHasBegunPlay, bIsNavigationModeActive, bShowMouseCursor,
                    InputMode, bNavigationHeld, RotationInput, ControlRotation,
                    ControlInputVector, bQuitRequested>>

\* ---- helpers ---------------------------------------------------------------
Max(a, b) == IF a >= b THEN a ELSE b

\* TWeakObjectPtr::IsValid for a pointer to component c under lifecycle cs.
IsValid(c, cs) == c # NullPtr /\ cs[c] \in {"created", "playing"}

Alive(cs) == {c \in Comps : IsValid(c, cs)}

RECURSIVE IdsOf(_)
IdsOf(recs) ==
    IF recs = <<>> THEN <<>>
    ELSE <<Head(recs).ObjectId>> \o IdsOf(Tail(recs))

\* Index of the first record satisfying Test, 0 if there is none.
RECURSIVE FirstIndex(_, _, _)
FirstIndex(recs, Test(_), i) ==
    IF i > Len(recs) THEN 0
    ELSE IF Test(recs[i]) THEN i
    ELSE FirstIndex(recs, Test, i + 1)

RemoveAt(recs, i) == SubSeq(recs, 1, i - 1) \o SubSeq(recs, i + 1, Len(recs))

\* The registry as one value, with the notifications sent so far in the
\* running operation.
Sub == [RegisteredObjects |-> RegisteredObjects,
        NextObjectId      |-> NextObjectId,
        SelectedObjectId  |-> SelectedObjectId,
        SelectedObject    |-> SelectedObject,
        listLog           |-> <<>>,
        selLog            |-> <<>>,
        infoLog           |-> <<>>]

\* ---- UInteractiveObjectManagerSubsystem ------------------------------------
\* Variant: reports the selection by SelectedObjectId alone.
GetSelectedObjectInfo_IdOnly(selId, selObj, cs) ==
    IF selId = INDEX_NONE
    THEN [bIsValid |-> FALSE, Id |-> INDEX_NONE]
    ELSE [bIsValid |-> TRUE, Id |-> selId]

\* GetSelectedObjectInfo: bOutIsValid and Result.Id.
GetSelectedObjectInfo(selId, selObj, cs) ==
    IF selId = INDEX_NONE \/ ~IsValid(selObj, cs)
    THEN [bIsValid |-> FALSE, Id |-> INDEX_NONE]
    ELSE [bIsValid |-> TRUE, Id |-> selId]

\* What a caller can read from the subsystem at one moment: the answer of
\* GetSelectedObjectInfo, SelectedObjectId and the Ids on record.
SelectionMoment(S, cs) ==
    [info |-> GetSelectedObjectInfo(S.SelectedObjectId, S.SelectedObject, cs),
     Payload |-> S.SelectedObjectId,
     SelectedObjectId |-> S.SelectedObjectId,
     RegisteredIds |-> {S.RegisteredObjects[i].ObjectId :
                           i \in DOMAIN S.RegisteredObjects}]

\* OnSelectedObjectChanged.Broadcast(SelectedObjectId).  A handler runs
\* inside the broadcast: infoLog keeps the moment it runs in.
BroadcastSelectedObjectChanged(S, cs) ==
    [S EXCEPT !.selLog = Append(@, S.SelectedObjectId),
              !.infoLog = Append(@, SelectionMoment(S, cs))]

\* Variant: returns early, without clearing, when the selected component is
\* no longer valid.
InvalidateSelection_KeepsStale(S, cs) ==
    LET cleared == BroadcastSelectedObjectChanged(
                     [S EXCEPT !.SelectedObjectId = INDEX_NONE,
                               !.SelectedObject = NullPtr], cs)
        bFound == \E i \in 1..Len(S.RegisteredObjects) :
                     /\ S.RegisteredObjects[i].ObjectId = S.SelectedObjectId
                     /\ S.RegisteredObjects[i].Component = S.SelectedObject
    IN  IF S.SelectedObjectId = INDEX_NONE THEN S
        ELSE IF ~IsValid(S.SelectedObject, cs) THEN S
        ELSE IF ~bFound THEN cleared
        ELSE S

InvalidateSelectionIfNoLongerValid(S, cs) ==
    LET cleared == BroadcastSelectedObjectChanged(
                     [S EXCEPT !.SelectedObjectId = INDEX_NONE,
                               !.SelectedObject = NullPtr], cs)
        bFound == \E i \in 1..Len(S.RegisteredObjects) :
                     /\ S.RegisteredObjects[i].ObjectId = S.SelectedObjectId
                     /\ S.RegisteredObjects[i].Component = S.SelectedObject
    IN  IF S.SelectedObjectId = INDEX_NONE THEN S
        ELSE IF ~IsValid(S.SelectedObject, cs) THEN cleared
        ELSE IF ~bFound THEN cleared
        ELSE S

CleanupInvalidRecords(S, cs) ==
    InvalidateSelectionIfNoLongerValid(
        [S EXCEPT !.RegisteredObjects =
            SelectSeq(@, LAMBDA r : IsValid(r.Component, cs))], cs)

\* The items GetInteractiveObjectsList writes to OutItems, given the records
\* it iterates over (records whose Component.Get() is null are skipped).
ListItems(recs, cs) ==
    IdsOf(SelectSeq(recs, LAMBDA r : IsValid(r.Component, cs)))

\* GetInteractiveObjectsList: the state it leaves behind.
GetInteractiveObjectsList(S, cs) == CleanupInvalidRecords(S, cs)

BroadcastObjectsListChanged(S, cs) ==
    LET Broadcast(T) ==
            [T EXCEPT !.listLog = Append(@, ListItems(T.RegisteredObjects, cs))]
    IN  Broadcast(GetInteractiveObjectsList(S, cs))

FindRecordById(S, ObjectId, cs) ==
    FirstIndex(S.RegisteredObjects,
               LAMBDA r : r.ObjectId = ObjectId /\ IsValid(r.Component, cs), 1)

FindRecordByComponent(S, c, cs) ==
    IF c = NullPtr THEN 0
    ELSE FirstIndex(S.RegisteredObjects,
                    LAMBDA r : IsValid(r.Component, cs) /\ r.Component = c, 1)

\* Variant: the automatic selection of the first object is not announced.
RegisterInteractiveObject_SilentSelect(S, c, cs) ==
    IF c = NullPtr THEN S
    ELSE
      LET Add(T) ==
            LET NewRecord == [ObjectId |-> T.NextObjectId, Component |-> c]
                added == [T EXCEPT !.NextObjectId = @ + 1,
                                   !.RegisteredObjects = Append(@, NewRecord)]
                selected == IF added.SelectedObjectId = INDEX_NONE
                            THEN [added EXCEPT !.SelectedObjectId = NewRecord.ObjectId,
                                               !.SelectedObject = c]
                            ELSE added
            IN  IF FindRecordByComponent(T, c, cs) # 0 THEN T
                ELSE BroadcastObjectsListChanged(selected, cs)
      IN  Add(CleanupInvalidRecords(S, cs))

RegisterInteractiveObject(S, c, cs) ==
    IF c = NullPtr THEN S
    ELSE
      LET Add(T) ==
            LET NewRecord == [ObjectId |-> T.NextObjectId, Component |-> c]
                added == [T EXCEPT !.NextObjectId = @ + 1,
                                   !.RegisteredObjects = Append(@, NewRecord)]
                selected == IF added.SelectedObjectId = INDEX_NONE
                            THEN BroadcastSelectedObjectChanged(
                                   [added EXCEPT !.SelectedObjectId = NewRecord.ObjectId,
                                                 !.SelectedObject = c], cs)
                            ELSE added
            IN  IF FindRecordByComponent(T, c, cs) # 0 THEN T
                ELSE BroadcastObjectsListChanged(selected, cs)
      IN  Add(CleanupInvalidRecords(S, cs))

UnregisterInteractiveObject(S, c, cs) ==
    IF c = NullPtr THEN S
    ELSE
      LET Remove(T) ==
            LET Index == FirstIndex(T.RegisteredObjects,
                           LAMBDA r : IsValid(r.Component, cs) /\ r.Component = c, 1)
                RemovedId == T.RegisteredObjects[Index].ObjectId
                removed == [T EXCEPT !.RegisteredObjects = RemoveAt(@, Index)]
                desel == IF removed.SelectedObjectId = RemovedId
                         THEN BroadcastSelectedObjectChanged(
                                [removed EXCEPT !.SelectedObjectId = INDEX_NONE,
                                                !.SelectedObject = NullPtr], cs)
                         ELSE removed
            IN  IF Index = 0 THEN T
                ELSE BroadcastObjectsListChanged(desel, cs)
      IN  Remove(CleanupInvalidRecords(S, cs))

\* ---- UInteractiveObjectComponent -------------------------------------------
ApplyScale(NewScale) == Max(NewScale, MinComponentScale)

ApplyColor(NewColor) == NewColor

\* RegisterWithManager: the world's subsystem is found unless it is gone.
RegisterWithManager(S, c, cs, deinit) ==
    IF deinit THEN [S |-> S, cached |-> FALSE]
    ELSE [S |-> RegisterInteractiveObject(S, c, cs), cached |-> TRUE]

\* Variant: the cached pointer is dropped but the manager is never told.
UnregisterFromManager_ResetOnly(S, c, cs, cached, deinit) ==
    [S |-> S, cached |-> FALSE]

\* UnregisterFromManager: through the cached pointer when it is still valid,
\* otherwise through the world's subsystem when there is one.
UnregisterFromManager(S, c, cs, cached, deinit) ==
    IF cached /\ ~deinit
    THEN [S |-> UnregisterInteractiveObject(S, c, cs), cached |-> FALSE]
    ELSE IF ~deinit
    THEN [S |-> UnregisterInteractiveObject(S, c, cs), cached |-> cached]
    ELSE [S |-> S, cached |-> cached]

\* AActor::Destroy on the owner of c: EndPlay is routed to a component that
\* has begun play, then the actor and its components become garbage.
DestroyActor(S, c, cs, cachedMap, deinit) ==
    IF cs[c] = "playing"
    THEN LET Ended(U) == [S |-> U.S,
                          cs |-> [cs EXCEPT ![c] = "dead"],
                          cached |-> [cachedMap EXCEPT ![c] = U.cached]]
         IN  Ended(UnregisterFromManager(S, c, cs, cachedMap[c], deinit))
    ELSE [S |-> S,
          cs |-> [cs EXCEPT ![c] = "dead"],
          cached |-> cachedMap]

\* ---- FInteractiveObjectRuntimeSettings / UInteractiveObjectSettings --------
\* Tolerance of FVector::IsNearlyZero (UE_KINDA_SMALL_NUMBER, 0.0001).
KindaSmallNumber == 1
\* Range UpdateFromViewData clamps the uniform scale to (0.1f .. 10.0f).
MinScale == 1000
MaxScale == 100000
\* FVector::ToString prints three decimals: one printed step is 0.001.
PrintedStep == 10

ConfigKeys == {"DefaultSpawnType", "DefaultColor", "DefaultScale"}

\* The value of one key of an ini section: absent, a text, or a text of the
\* form "X=.. Y=.. Z=.." (kept as the numbers it spells).
MissingValue == [kind |-> "missing", text |-> "", v |-> <<0, 0, 0>>]
TextValue(t) == [kind |-> "text", text |-> t, v |-> <<0, 0, 0>>]
VectorValue(vec) == [kind |-> "vector", text |-> "", v |-> vec]

EmptyIni == [k \in ConfigKeys |-> MissingValue]

SafeDefaults == [DefaultSpawnType |-> "Cube",
                 DefaultColor |-> "White",
                 DefaultScale |-> <<SafeDefaultScale, SafeDefaultScale, SafeDefaultScale>>]

\* The float that is not a number, kept apart from every scale; a
\* comparison with it is false, as for IEEE floats.
NaN == -999999

FloatLess(a, b) == a # NaN /\ b # NaN /\ a < b

Abs(x) == IF x < 0 THEN -x ELSE x

IsNearlyZero(vec) == \A i \in 1..3 : vec[i] # NaN /\ Abs(vec[i]) <= KindaSmallNumber

\* FInteractiveObjectRuntimeSettings::IsValid
RuntimeSettingsIsValid(rs) ==
    /\ ~IsNearlyZero(rs.DefaultScale)
    /\ FloatLess(0, rs.DefaultScale[1])
    /\ FloatLess(0, rs.DefaultScale[2])
    /\ FloatLess(0, rs.DefaultScale[3])

\* TryParseSpawnType: the three names, compared ignoring case.
TryParseSpawnType(InString) ==
    IF InString \in {"Cube", "cube"} THEN [ok |-> TRUE, type |-> "Cube"]
    ELSE IF InString \in {"Sphere", "sphere"} THEN [ok |-> TRUE, type |-> "Sphere"]
    ELSE IF InString \in {"Random", "random"} THEN [ok |-> TRUE, type |-> "Random"]
    ELSE [ok |-> FALSE, type |-> "Cube"]

SpawnTypeToString(Type) ==
    IF Type \in {"Cube", "Sphere", "Random"} THEN Type ELSE "Cube"

\* FLinearColor::ToString, "(R=%f,G=%f,B=%f,A=%f)"; both colors of the model
\* have channels that six decimals spell exactly.
ColorToString(col) ==
    IF col = "White" THEN "(R=1.000000,G=1.000000,B=1.000000,A=1.000000)"
    ELSE "(R=1.000000,G=0.000000,B=0.000000,A=1.000000)"

\* FLinearColor::InitFromString
ColorInitFromString(t) ==
    IF t = "(R=1.000000,G=1.000000,B=1.000000,A=1.000000)"
    THEN [ok |-> TRUE, color |-> "White"]
    ELSE IF t = "(R=1.000000,G=0.000000,B=0.000000,A=1.000000)"
    THEN [ok |-> TRUE, color |-> "Red"]
    ELSE [ok |-> FALSE, color |-> "White"]

\* One axis as "%3.3f" prints it: rounded to the nearest thousandth.
RoundToPrinted(x) ==
    IF x = NaN THEN NaN
    ELSE IF x >= 0 THEN ((x + PrintedStep \div 2) \div PrintedStep) * PrintedStep
    ELSE -(((-x + PrintedStep \div 2) \div PrintedStep) * PrintedStep)

\* FVector::ToString, "X=%3.3f Y=%3.3f Z=%3.3f"
VectorToString(vec) ==
    VectorValue(<<RoundToPrinted(vec[1]), RoundToPrinted(vec[2]), RoundToPrinted(vec[3])>>)

\* FVector::InitFromString
VectorInitFromString(val) ==
    IF val.kind = "vector" THEN [ok |-> TRUE, vec |-> val.v]
    ELSE [ok |-> FALSE, vec |-> <<0, 0, 0>>]

\* GConfig->GetString on the user file, then on the project file.
ConfigGetString(key, user, game) ==
    IF user[key].kind # "missing" THEN user[key] ELSE game[key]

LoadSpawnTypeFromConfig(OutSettings, user, game) ==
    LET Value == ConfigGetString("DefaultSpawnType", user, game)
        Parsed == TryParseSpawnType(Value.text)
    IN  IF Value.kind = "missing" THEN OutSettings
        ELSE IF Value.kind # "text" \/ ~Parsed.ok THEN OutSettings
        ELSE [OutSettings EXCEPT !.DefaultSpawnType = Parsed.type]

LoadColorFromConfig(OutSettings, user, game) ==
    LET Value == ConfigGetString("DefaultColor", user, game)
        Parsed == ColorInitFromString(Value.text)
    IN  IF Value.kind = "missing" THEN OutSettings
        ELSE IF Value.kind # "text" \/ ~Parsed.ok THEN OutSettings
        ELSE [OutSettings EXCEPT !.DefaultColor = Parsed.color]

LoadScaleFromConfig(OutSettings, user, game) ==
    LET Value == ConfigGetString("DefaultScale", user, game)
        Parsed == VectorInitFromString(Value)
    IN  IF Value.kind = "missing" THEN OutSettings
        ELSE IF ~Parsed.ok THEN OutSettings
        ELSE [OutSettings EXCEPT !.DefaultScale = Parsed.vec]

\* LoadFromConfig: the value it stores in RuntimeSettings.
LoadFromConfig(user, game) ==
    LET Checked(TempSettings) ==
            IF ~RuntimeSettingsIsValid(TempSettings) THEN SafeDefaults
            ELSE TempSettings
    IN  Checked(LoadScaleFromConfig(
                  LoadColorFromConfig(
                    LoadSpawnTypeFromConfig(SafeDefaults, user, game),
                    user, game),
                  user, game))

\* SaveToConfig: the user file after the three SetString calls.
SaveToConfig(LocalSettings, user) ==
    [user EXCEPT
        !["DefaultSpawnType"] = TextValue(SpawnTypeToString(LocalSettings.DefaultSpawnType)),
        !["DefaultColor"] = TextValue(ColorToString(LocalSettings.DefaultColor)),
        !["DefaultScale"] = VectorToString(LocalSettings.DefaultScale)]

ApplyDefaultsIfInvalid(rs) ==
    IF ~RuntimeSettingsIsValid(rs) THEN SafeDefaults ELSE rs

\* UpdateRuntimeSettings that stores what it is handed without validation.
UpdateRuntimeSettings_Unchecked(NewSettings) == NewSettings

UpdateRuntimeSettings(NewSettings) ==
    IF ~RuntimeSettingsIsValid(NewSettings) THEN SafeDefaults ELSE NewSettings

Clamp(x, lo, hi) == IF x < lo THEN lo ELSE IF x > hi THEN hi ELSE x

\* UpdateFromViewData that skips the clamp of the requested scale.
UpdateFromViewData_Unclamped(rs, InViewData) ==
    LET Stored(NewSettings) ==
            IF ~RuntimeSettingsIsValid(NewSettings) THEN SafeDefaults ELSE NewSettings
    IN  Stored([rs EXCEPT
                  !.DefaultSpawnType = InViewData.DefaultSpawnType,
                  !.DefaultColor = InViewData.DefaultColor,
                  !.DefaultScale = <<InViewData.DefaultUniformScale,
                                     InViewData.DefaultUniformScale,
                                     InViewData.DefaultUniformScale>>])

UpdateFromViewData(rs, InViewData) ==
    LET RequestedScale ==
            IF FloatLess(InViewData.DefaultUniformScale, MinScale)
               \/ FloatLess(MaxScale, InViewData.DefaultUniformScale)
            THEN Clamp(InViewData.DefaultUniformScale, MinScale, MaxScale)
            ELSE InViewData.DefaultUniformScale
        NewSettings == [rs EXCEPT
                          !.DefaultSpawnType = InViewData.DefaultSpawnType,
                          !.DefaultColor = InViewData.DefaultColor,
                          !.DefaultScale = <<RequestedScale, RequestedScale, RequestedScale>>]
    IN  IF ~RuntimeSettingsIsValid(NewSettings) THEN SafeDefaults ELSE NewSettings

\* UInteractiveObjectSettings::ToViewData: the view data shows the X axis
\* of the default scale as the uniform scale.
ToViewData(rs) ==
    [DefaultSpawnType    |-> rs.DefaultSpawnType,
     DefaultColor        |-> rs.DefaultColor,
     DefaultUniformScale |-> rs.DefaultScale[1]]

\* Get that loads the ini files on every call.
Get_AlwaysLoads(bLoaded, rs, user, game) ==
    ApplyDefaultsIfInvalid(LoadFromConfig(user, game))

\* UInteractiveObjectSettings::Get: the runtime settings the returned
\* object holds; only the first call of a process loads the ini files.
Get(bLoaded, rs, user, game) ==
    IF ~bLoaded
    THEN ApplyDefaultsIfInvalid(LoadFromConfig(user, game))
    ELSE rs

\* ---- threads calling the settings object ---------------------------------------
Threads == 1..NumThreads

NoThread == 0

\* The fields of FInteractiveObjectRuntimeSettings in declaration order, the
\* order in which a struct assignment copies them.
Fields == <<"DefaultSpawnType", "DefaultColor", "DefaultScale">>

NoView == [DefaultSpawnType |-> "Cube", DefaultColor |-> "White", DefaultUniformScale |-> SafeDefaultScale]

\* Locals of a settings call: the call, its local settings structure
\* (TempSettings, ValidatedSettings, NewSettings or LocalSettings), the view
\* data it was handed, the field or key it handles next and, for
\* UpdateFromViewData, whether its first locked block is done.
IdleFrame == [call |-> "none", local |-> SafeDefaults, view |-> NoView,
              i |-> 1, bSecondBlock |-> FALSE, n |-> 0]

\* ---- bookkeeping -------------------------------------------------------------
Last(s) == s[Len(s)]

\* The operations that write the runtime settings other than ApplySettingsFromUI.
SettingsUpdates == {"LoadFromConfig", "ApplyDefaultsIfInvalid", "UpdateRuntimeSettings",
                    "UpdateFromViewData", "ApplyRuntimeSettingsFromBlueprint",
                    "StartupModule"}

\* No ApplySettingsFromUI since the latest other settings update.
NotApplied == [has |-> FALSE,
               v   |-> [DefaultSpawnType |-> "Cube", DefaultColor |-> "White",
                        DefaultUniformScale |-> 0]]

\* What an operation finds when it is called.
Snapshot == [RegisteredObjects |-> RegisteredObjects,
             SelectedObjectId  |-> SelectedObjectId,
             SelectedObject    |-> SelectedObject,
             bHasSelection     |-> GetSelectedObjectInfo(SelectedObjectId,
                                       SelectedObject, compState).bIsValid,
             list              |-> ListItems(RegisteredObjects, compState),
             CurrentColor      |-> CurrentColor,
             CurrentScale      |-> CurrentScale,
             RuntimeSettings   |-> RuntimeSettings,
             UserIni           |-> UserIni,
             GameIni           |-> GameIni,
             bAfterClear       |-> (op.name = "ClearSelection"),
             applied           |-> IF op.name = "ApplySettingsFromUI"
                                   THEN [has |-> TRUE, v |-> op.arg]
                                   ELSE IF op.name \in SettingsUpdates
                                        THEN NotApplied
                                        ELSE pre.applied]

\* Store the outcome T of an operation and what it returned and broadcast;
\* cls is the actor class a spawn resolved, "None" for every other outcome.
\* The root widget before NativeConstruct: state is where it stands in its
\* life, bBound says its two handlers are on the subsystem's delegates,
\* bManagerSet that ManagerSubsystem points to the subsystem; ListEvents and
\* SelectedEvents are the OnObjectsListUpdated and OnSelectedObjectInfoUpdated
\* events of the latest step, DeliveredList and DeliveredSelection the latest
\* of each ever delivered.
NoWidget == [state |-> "none", bBound |-> FALSE, bManagerSet |-> FALSE,
             ListEvents |-> <<>>, SelectedEvents |-> <<>>,
             DeliveredList |-> <<>>,
             DeliveredSelection |-> [bHasSelection |-> FALSE,
                                     SelectedObjectId |-> INDEX_NONE]]

\* Variant: the handler trusts the broadcast payload instead of asking the
\* subsystem.
HandleSelectedObjectChanged_Payload(bManagerValid, e) ==
    [bHasSelection |-> TRUE,
     SelectedObjectId |-> e.Payload,
     SubsystemSelectedObjectId |-> e.SelectedObjectId,
     RegisteredIds |-> e.RegisteredIds]

\* HandleSelectedObjectChanged: the OnSelectedObjectInfoUpdated event it
\* raises for a broadcast made at the moment e, with what the subsystem held
\* at that moment.
HandleSelectedObjectChanged(bManagerValid, e) ==
    [bHasSelection |-> bManagerValid /\ e.info.bIsValid,
     SelectedObjectId |-> IF bManagerValid /\ e.info.bIsValid
                          THEN e.info.Id ELSE INDEX_NONE,
     SubsystemSelectedObjectId |-> e.SelectedObjectId,
     RegisteredIds |-> e.RegisteredIds]

RECURSIVE HandleAll(_, _)
HandleAll(bManagerValid, log) ==
    IF log = <<>> THEN <<>>
    ELSE <<HandleSelectedObjectChanged(bManagerValid, Head(log))>>
         \o HandleAll(bManagerValid, Tail(log))

\* The widget W after an operation whose outcome is T: a bound widget gets
\* every broadcast of the operation, HandleObjectsListChanged passing the
\* payload on.
Deliver(W, T, deinit) ==
    LET Got(events) ==
            [W EXCEPT !.ListEvents = T.listLog,
                      !.SelectedEvents = events,
                      !.DeliveredList = IF T.listLog = <<>> THEN @ ELSE Last(T.listLog),
                      !.DeliveredSelection =
                          IF events = <<>> THEN @
                          ELSE [bHasSelection |-> Last(events).bHasSelection,
                                SelectedObjectId |-> Last(events).SelectedObjectId]]
    IN  IF W.bBound
        THEN Got(HandleAll(W.bManagerSet /\ ~deinit, T.infoLog))
        ELSE [W EXCEPT !.ListEvents = <<>>, !.SelectedEvents = <<>>]

\* Store the outcome T of an operation, with W the widget it leaves.
CommitWidget(nm, arg, ret, cls, T, cs, W) ==
    /\ widget' = W
    /\ RegisteredObjects' = T.RegisteredObjects
    /\ NextObjectId' = T.NextObjectId
    /\ SelectedObjectId' = T.SelectedObjectId
    /\ SelectedObject' = T.SelectedObject
    /\ compState' = cs
    /\ lastListChanged' = IF T.listLog = <<>> THEN lastListChanged
                          ELSE Last(T.listLog)
    /\ lastSelectedChanged' = IF T.selLog = <<>> THEN lastSelectedChanged
                              ELSE Last(T.selLog)
    /\ listEverChanged' = (listEverChanged \/
            ListItems(T.RegisteredObjects, cs) # ListItems(RegisteredObjects, compState))
    /\ bListBroadcast' = (bListBroadcast \/ T.listLog # <<>>)
    /\ bSelectedBroadcast' = (bSelectedBroadcast \/ T.selLog # <<>>)
    /\ op' = [name |-> nm, arg |-> arg, ret |-> ret, cls |-> cls,
              listLog |-> T.listLog, selLog |-> T.selLog]
    /\ pre' = Snapshot

CommitAs(nm, arg, ret, cls, T, cs) ==
    CommitWidget(nm, arg, ret, cls, T, cs, Deliver(widget, T, bDeinitialized))

Commit(nm, arg, ret, T, cs) == CommitAs(nm, arg, ret, "None", T, cs)

\* ---- initial state -------------------------------------------------------------
Init ==
    /\ compState = [c \in Comps |-> "none"]
    /\ CachedManagerSubsystem = [c \in Comps |-> FALSE]
    /\ CurrentColor = [c \in Comps |-> "White"]
    /\ CurrentScale = [c \in Comps |-> SafeDefaultScale]
    /\ RegisteredObjects = <<>>
    /\ NextObjectId = FirstObjectId
    /\ SelectedObjectId = INDEX_NONE
    /\ SelectedObject = NullPtr
    /\ bDeinitialized = FALSE
    /\ RuntimeSettings = SafeDefaults
    /\ UserIni = EmptyIni
    /\ GameIni = EmptyIni
    /\ bHasLoadedConfig = TRUE
    /\ SettingsCriticalSection = NoThread
    /\ pc = [t \in Threads |-> "idle"]
    /\ frame = [t \in Threads |-> IdleFrame]
    /\ returned = [t \in Threads |-> SafeDefaults]
    /\ updateCount = 0
    /\ updateValue = [n \in 1..MaxUpdates |-> SafeDefaults]
    /\ Editor = SafeDefaults
    /\ widget = NoWidget
    /\ lastListChanged = <<>>
    /\ lastSelectedChanged = INDEX_NONE
    /\ bListBroadcast = FALSE
    /\ bSelectedBroadcast = FALSE
    /\ listEverChanged = FALSE
    /\ bHasBegunPlay = FALSE
    /\ bIsNavigationModeActive = FALSE
    /\ bShowMouseCursor = TRUE
    /\ InputMode = "EngineDefault"
    /\ bNavigationHeld = FALSE
    /\ RotationInput = <<0, 0>>
    /\ ControlRotation = <<0, 0>>
    /\ ControlInputVector = <<0, 0, 0>>
    /\ bQuitRequested = FALSE
    /\ op = [name |-> "Init", arg |-> 0, ret |-> "void", cls |-> "None",
             listLog |-> <<>>, selLog |-> <<>>]
    /\ pre = [RegisteredObjects |-> <<>>,
              SelectedObjectId  |-> INDEX_NONE,
              SelectedObject    |-> NullPtr,
              bHasSelection     |-> FALSE,
              list              |-> <<>>,
              CurrentColor      |-> [c \in Comps |-> "White"],
              CurrentScale      |-> [c \in Comps |-> SafeDefaultScale],
              RuntimeSettings   |-> SafeDefaults,
              UserIni           |-> EmptyIni,
              GameIni           |-> EmptyIni,
              bAfterClear       |-> FALSE,
              applied           |-> NotApplied]

\* ---- actions ---------------------------------------------------------------------
\* The variables an operation of the registry leaves alone.
ComponentFrame == UNCHANGED <<CurrentColor, CurrentScale, settingsVars, threadVars, controllerVars>>

RegistryFrame == UNCHANGED <<CachedManagerSubsystem, bDeinitialized>>

\* A destroyed component has no fields any more: its entries go back to the
\* constructor's values when lifecycle cs says it is gone.
Collected(cs) ==
    /\ CurrentColor' = [c \in Comps |->
                          IF IsValid(c, cs) THEN CurrentColor[c] ELSE "White"]
    /\ CurrentScale' = [c \in Comps |->
                          IF IsValid(c, cs) THEN CurrentScale[c] ELSE SafeDefaultScale]
    /\ UNCHANGED <<settingsVars, threadVars, controllerVars>>

\* The next component object to come into existence.
Fresh(c) == compState[c] = "none" /\ \A d \in Comps : d < c => compState[d] # "none"

\* An actor carrying the component is created; it has not begun play yet.
PlaceComponent(c) ==
    /\ ~bDeinitialized
    /\ Fresh(c)
    /\ Commit("PlaceComponent", c, "void", Sub,
              [compState EXCEPT ![c] = "created"])
    /\ ComponentFrame
    /\ RegistryFrame

\* UInteractiveObjectComponent::BeginPlay
BeginPlay(c) ==
    /\ compState[c] = "created"
    /\ NextObjectId <= MaxObjectId
    /\ \E R \in {RegisterWithManager(Sub, c, [compState EXCEPT ![c] = "playing"],
                                      bDeinitialized)} :
           /\ Commit("BeginPlay", c, "void", R.S, [compState EXCEPT ![c] = "playing"])
           /\ CachedManagerSubsystem' = [CachedManagerSubsystem EXCEPT ![c] = R.cached]
    /\ ComponentFrame
    /\ UNCHANGED bDeinitialized

\* The actor owning c is destroyed by the engine (EndPlay first when c has
\* begun play).
DestroyComponentOwner(c) ==
    /\ IsValid(c, compState)
    /\ \E D \in {DestroyActor(Sub, c, compState, CachedManagerSubsystem, bDeinitialized)} :
           /\ Commit("DestroyActor", c, "void", D.S, D.cs)
           /\ CachedManagerSubsystem' = D.cached
           /\ Collected(D.cs)
    /\ UNCHANGED bDeinitialized

\* UInteractiveObjectManagerSubsystem::SpawnObjectOfType.  SpawnActor runs the
\* new component's BeginPlay before it returns; bSpawned is false when no
\* class is resolved or the engine fails to spawn.
SpawnObjectOfType(SpawnType, bSpawned, c) ==
    /\ ~bDeinitialized
    /\ Fresh(c)
    /\ NextObjectId <= MaxObjectId
    /\ IF ~bSpawned
       THEN /\ Commit("SpawnObjectOfType", NullPtr, "void", Sub, compState)
            /\ UNCHANGED <<CurrentColor, CurrentScale, CachedManagerSubsystem>>
       ELSE \E R \in {RegisterWithManager(Sub, c, [compState EXCEPT ![c] = "playing"],
                                           bDeinitialized)} :
                /\ Commit("SpawnObjectOfType", c, "void", R.S,
                          [compState EXCEPT ![c] = "playing"])
                /\ CachedManagerSubsystem' = [CachedManagerSubsystem EXCEPT ![c] = R.cached]
                /\ CurrentColor' = [CurrentColor EXCEPT
                                      ![c] = ApplyColor(RuntimeSettings.DefaultColor)]
                /\ CurrentScale' = [CurrentScale EXCEPT
                                      ![c] = ApplyScale(RuntimeSettings.DefaultScale[1])]
    /\ UNCHANGED <<settingsVars, threadVars, controllerVars, bDeinitialized>>

\* RegisterInteractiveObject called directly, with nullptr or a live component.
RegisterCall(c) ==
    /\ ~bDeinitialized
    /\ c \in {NullPtr} \cup Alive(compState)
    /\ NextObjectId <= MaxObjectId
    /\ Commit("RegisterInteractiveObject", c, "void",
              RegisterInteractiveObject(Sub, c, compState), compState)
    /\ ComponentFrame
    /\ RegistryFrame

\* UnregisterInteractiveObject called directly, with nullptr or a component
\* that has not begun play (one in play unregisters itself in EndPlay).
UnregisterCall(c) ==
    /\ ~bDeinitialized
    /\ c \in {NullPtr} \cup {d \in Comps : compState[d] = "created"}
    /\ Commit("UnregisterInteractiveObject", c, "void",
              UnregisterInteractiveObject(Sub, c, compState), compState)
    /\ ComponentFrame
    /\ RegistryFrame

GetInteractiveObjectsListCall ==
    /\ ~bDeinitialized
    /\ Commit("GetInteractiveObjectsList", 0, "void",
              GetInteractiveObjectsList(Sub, compState), compState)
    /\ ComponentFrame
    /\ RegistryFrame

SelectObjectById(ObjectId) ==
    /\ ~bDeinitialized
    /\ IF ObjectId = SelectedObjectId
       THEN Commit("SelectObjectById", ObjectId, "false", Sub, compState)
       ELSE \E T \in {CleanupInvalidRecords(Sub, compState)} :
            LET Record == FindRecordById(T, ObjectId, compState)
                chosen == BroadcastSelectedObjectChanged(
                            [T EXCEPT !.SelectedObjectId = T.RegisteredObjects[Record].ObjectId,
                                      !.SelectedObject = T.RegisteredObjects[Record].Component], compState)
            IN  IF Record # 0
                THEN Commit("SelectObjectById", ObjectId, "true", chosen, compState)
                ELSE Commit("SelectObjectById", ObjectId, "false", T, compState)
    /\ ComponentFrame
    /\ RegistryFrame

SelectObjectByIndex(Index) ==
    /\ ~bDeinitialized
    /\ \E T \in {CleanupInvalidRecords(Sub, compState)} :
       LET bValidIndex == Index >= 0 /\ Index < Len(T.RegisteredObjects)
           Record == T.RegisteredObjects[Index + 1]
           chosen == BroadcastSelectedObjectChanged(
                       [T EXCEPT !.SelectedObjectId = Record.ObjectId,
                                 !.SelectedObject = Record.Component], compState)
       IN  IF ~bValidIndex
           THEN Commit("SelectObjectByIndex", Index, "false", T, compState)
           ELSE IF ~IsValid(Record.Component, compState)
           THEN Commit("SelectObjectByIndex", Index, "false", T, compState)
           ELSE IF Record.ObjectId = T.SelectedObjectId
           THEN Commit("SelectObjectByIndex", Index, "false", T, compState)
           ELSE Commit("SelectObjectByIndex", Index, "true", chosen, compState)
    /\ ComponentFrame
    /\ RegistryFrame

\* Variant: only the weak pointer is tested, not SelectedObjectId.
ClearSelection_PointerOnly ==
    /\ ~bDeinitialized
    /\ IF ~IsValid(SelectedObject, compState)
       THEN Commit("ClearSelection", 0, "false", Sub, compState)
       ELSE Commit("ClearSelection", 0, "true",
                   BroadcastSelectedObjectChanged(
                       [Sub EXCEPT !.SelectedObjectId = INDEX_NONE,
                                   !.SelectedObject = NullPtr], compState),
                   compState)
    /\ ComponentFrame
    /\ RegistryFrame

ClearSelection ==
    /\ ~bDeinitialized
    /\ IF SelectedObjectId = INDEX_NONE /\ ~IsValid(SelectedObject, compState)
       THEN Commit("ClearSelection", 0, "false", Sub, compState)
       ELSE Commit("ClearSelection", 0, "true",
                   BroadcastSelectedObjectChanged(
                       [Sub EXCEPT !.SelectedObjectId = INDEX_NONE,
                                   !.SelectedObject = NullPtr], compState),
                   compState)
    /\ ComponentFrame
    /\ RegistryFrame

\* Variant: the color goes to the first registered object instead of the
\* selected one.
SetSelectedObjectColor_FirstRecord(NewColor) ==
    /\ ~bDeinitialized
    /\ IF ~IsValid(SelectedObject, compState)
       THEN /\ Commit("SetSelectedObjectColor", NewColor, "false", Sub, compState)
            /\ UNCHANGED CurrentColor
       ELSE /\ Commit("SetSelectedObjectColor", NewColor, "true", Sub, compState)
            /\ CurrentColor' = [CurrentColor EXCEPT
                                  ![RegisteredObjects[1].Component] = ApplyColor(NewColor)]
    /\ UNCHANGED <<CurrentScale, settingsVars, threadVars, controllerVars>>
    /\ RegistryFrame

SetSelectedObjectColor(NewColor) ==
    /\ ~bDeinitialized
    /\ IF ~IsValid(SelectedObject, compState)
       THEN /\ Commit("SetSelectedObjectColor", NewColor, "false", Sub, compState)
            /\ UNCHANGED CurrentColor
       ELSE /\ Commit("SetSelectedObjectColor", NewColor, "true", Sub, compState)
            /\ CurrentColor' = [CurrentColor EXCEPT ![SelectedObject] = ApplyColor(NewColor)]
    /\ UNCHANGED <<CurrentScale, settingsVars, threadVars, controllerVars>>
    /\ RegistryFrame

SetSelectedObjectUniformScale(NewUniformScale) ==
    /\ ~bDeinitialized
    /\ IF ~IsValid(SelectedObject, compState)
       THEN /\ Commit("SetSelectedObjectUniformScale", NewUniformScale, "false",
                      Sub, compState)
            /\ UNCHANGED CurrentScale
       ELSE /\ Commit("SetSelectedObjectUniformScale", NewUniformScale, "true",
                      Sub, compState)
            /\ CurrentScale' = [CurrentScale EXCEPT
                                  ![SelectedObject] = ApplyScale(NewUniformScale)]
    /\ UNCHANGED <<CurrentColor, settingsVars, threadVars, controllerVars>>
    /\ RegistryFrame

\* Variant: the owning actor is never destroyed.
DeleteSelected_NoDestroy(S, cs, cachedMap, deinit) ==
    LET ObjectIdToRemove == S.SelectedObjectId
        S1 == [S EXCEPT !.SelectedObjectId = INDEX_NONE, !.SelectedObject = NullPtr]
        RemovedIndex == FirstIndex(S1.RegisteredObjects,
                                   LAMBDA r : r.ObjectId = ObjectIdToRemove, 1)
        S2 == IF RemovedIndex # 0
              THEN [S1 EXCEPT !.RegisteredObjects = RemoveAt(@, RemovedIndex)]
              ELSE S1
        S4 == IF Len(S2.RegisteredObjects) > 0
              THEN [S2 EXCEPT !.SelectedObjectId = S2.RegisteredObjects[1].ObjectId,
                              !.SelectedObject = S2.RegisteredObjects[1].Component]
              ELSE S2
        S5 == BroadcastObjectsListChanged(S4, cs)
        S6 == BroadcastSelectedObjectChanged(S5, cs)
    IN  [S |-> S6, cs |-> cs, cached |-> cachedMap,
         bSuccess |-> RemovedIndex # 0, RemovedId |-> ObjectIdToRemove]

\* The part of DeleteSelectedObject after the validity check: what it does
\* to the registry and to the components.
DeleteSelected(S, cs, cachedMap, deinit) ==
    LET InteractiveComponent == S.SelectedObject
        ObjectIdToRemove == S.SelectedObjectId
        S1 == [S EXCEPT !.SelectedObjectId = INDEX_NONE, !.SelectedObject = NullPtr]
        RemovedIndex == FirstIndex(S1.RegisteredObjects,
                                   LAMBDA r : r.ObjectId = ObjectIdToRemove, 1)
        S2 == IF RemovedIndex # 0
              THEN [S1 EXCEPT !.RegisteredObjects = RemoveAt(@, RemovedIndex)]
              ELSE S1
        SelectFirst(S3) ==
            IF Len(S3.RegisteredObjects) > 0
            THEN [S3 EXCEPT !.SelectedObjectId = S3.RegisteredObjects[1].ObjectId,
                            !.SelectedObject = S3.RegisteredObjects[1].Component]
            ELSE S3
        Destroyed(D) ==
            [S |-> BroadcastSelectedObjectChanged(
                       BroadcastObjectsListChanged(SelectFirst(D.S), D.cs), D.cs),
             cs |-> D.cs, cached |-> D.cached,
             bSuccess |-> RemovedIndex # 0, RemovedId |-> ObjectIdToRemove]
    IN  Destroyed(DestroyActor(S2, InteractiveComponent, cs, cachedMap, deinit))

DeleteSelectedObject ==
    /\ ~bDeinitialized
    /\ IF ~IsValid(SelectedObject, compState)
       THEN /\ Commit("DeleteSelectedObject", SelectedObjectId, "false", Sub, compState)
            /\ UNCHANGED CachedManagerSubsystem
            /\ ComponentFrame
       ELSE \E R \in {DeleteSelected(Sub, compState, CachedManagerSubsystem, bDeinitialized)} :
                /\ Commit("DeleteSelectedObject", SelectedObjectId, IF R.bSuccess THEN "true" ELSE "false", R.S, R.cs)
                /\ CachedManagerSubsystem' = R.cached
                /\ Collected(R.cs)
    /\ UNCHANGED bDeinitialized

Deinitialize ==
    /\ ~bDeinitialized
    /\ bDeinitialized' = TRUE
    /\ Commit("Deinitialize", 0, "void",
              [Sub EXCEPT !.RegisteredObjects = <<>>,
                          !.SelectedObject = NullPtr,
                          !.SelectedObjectId = INDEX_NONE],
              compState)
    /\ ComponentFrame
    /\ UNCHANGED CachedManagerSubsystem

\* ---- settings and default spawn ----------------------------------------------
\* What the Settings tab can send (type, color, uniform scale).
ViewInputs ==
    {[DefaultSpawnType |-> "Sphere", DefaultColor |-> "Red",   DefaultUniformScale |-> 12346],
     [DefaultSpawnType |-> "Random", DefaultColor |-> "White", DefaultUniformScale |-> 0],
     [DefaultSpawnType |-> "Cube",   DefaultColor |-> "Red",   DefaultUniformScale |-> 200000],
     [DefaultSpawnType |-> "Sphere", DefaultColor |-> "White", DefaultUniformScale |-> -5000],
     [DefaultSpawnType |-> "Sphere", DefaultColor |-> "Red",   DefaultUniformScale |-> NaN]}

\* What a caller of UpdateRuntimeSettings can pass.
SettingsInputs ==
    {[DefaultSpawnType |-> "Sphere", DefaultColor |-> "Red",   DefaultScale |-> <<50, 50, 50>>],
     [DefaultSpawnType |-> "Cube",   DefaultColor |-> "Red",   DefaultScale |-> <<2, 2, 2>>],
     [DefaultSpawnType |-> "Random", DefaultColor |-> "White", DefaultScale |-> <<0, 0, 0>>],
     [DefaultSpawnType |-> "Sphere", DefaultColor |-> "White", DefaultScale |-> <<10000, -10000, 10000>>],
     [DefaultSpawnType |-> "Random", DefaultColor |-> "Red",   DefaultScale |-> <<10000, 20000, 30000>>],
     [DefaultSpawnType |-> "Sphere", DefaultColor |-> "Red",   DefaultScale |-> <<NaN, 10000, 10000>>]}

\* Contents an ini file can be given from outside the program.
IniContents ==
    {EmptyIni,
     [k \in ConfigKeys |->
        IF k = "DefaultSpawnType" THEN TextValue("sphere")
        ELSE IF k = "DefaultColor" THEN TextValue(ColorToString("Red"))
        ELSE VectorValue(<<20000, 20000, 20000>>)],
     [k \in ConfigKeys |->
        IF k = "DefaultSpawnType" THEN TextValue("Random")
        ELSE IF k = "DefaultColor" THEN TextValue(ColorToString("Red"))
        ELSE VectorValue(<<0, 0, 0>>)],
     [k \in ConfigKeys |->
        IF k = "DefaultSpawnType" THEN TextValue("Pyramid")
        ELSE IF k = "DefaultColor" THEN TextValue("blue")
        ELSE TextValue("big")],
     [k \in ConfigKeys |->
        IF k = "DefaultColor" THEN TextValue(ColorToString("Red"))
        ELSE MissingValue]}

\* The settings operations leave the registry and the objects alone.
ObjectsFrame ==
    /\ UNCHANGED <<CurrentColor, CurrentScale, threadVars, controllerVars>>
    /\ RegistryFrame

\* An ini file is edited or replaced while the program does not look.
EditConfigFile(bUserFile, contents) ==
    /\ IF bUserFile
       THEN UserIni' = contents /\ UNCHANGED GameIni
       ELSE GameIni' = contents /\ UNCHANGED UserIni
    /\ UNCHANGED RuntimeSettings
    /\ UNCHANGED bHasLoadedConfig
    /\ Commit("EditConfigFile", 0, "void", Sub, compState)
    /\ ObjectsFrame

LoadFromConfigCall ==
    /\ RuntimeSettings' = LoadFromConfig(UserIni, GameIni)
    /\ UNCHANGED <<UserIni, GameIni>>
    /\ UNCHANGED bHasLoadedConfig
    /\ Commit("LoadFromConfig", 0, "void", Sub, compState)
    /\ ObjectsFrame

SaveToConfigCall ==
    /\ UserIni' = SaveToConfig(RuntimeSettings, UserIni)
    /\ UNCHANGED <<RuntimeSettings, GameIni>>
    /\ UNCHANGED bHasLoadedConfig
    /\ Commit("SaveToConfig", 0, "void", Sub, compState)
    /\ ObjectsFrame

ApplyDefaultsIfInvalidCall ==
    /\ RuntimeSettings' = ApplyDefaultsIfInvalid(RuntimeSettings)
    /\ UNCHANGED <<UserIni, GameIni>>
    /\ UNCHANGED bHasLoadedConfig
    /\ Commit("ApplyDefaultsIfInvalid", 0, "void", Sub, compState)
    /\ ObjectsFrame

UpdateRuntimeSettingsCall(NewSettings) ==
    /\ RuntimeSettings' = UpdateRuntimeSettings(NewSettings)
    /\ UNCHANGED <<UserIni, GameIni>>
    /\ UNCHANGED bHasLoadedConfig
    /\ Commit("UpdateRuntimeSettings", NewSettings, "void", Sub, compState)
    /\ ObjectsFrame

UpdateFromViewDataCall(InViewData) ==
    /\ RuntimeSettings' = UpdateFromViewData(RuntimeSettings, InViewData)
    /\ UNCHANGED <<UserIni, GameIni>>
    /\ UNCHANGED bHasLoadedConfig
    /\ Commit("UpdateFromViewData", InViewData, "void", Sub, compState)
    /\ ObjectsFrame

\* UInteractiveObjectSettings::ApplyRuntimeSettingsFromBlueprint
ApplyRuntimeSettingsFromBlueprint(NewSettings, bSaveToConfig) ==
    /\ bHasLoadedConfig' = TRUE
    /\ RuntimeSettings' = ApplyDefaultsIfInvalid(UpdateRuntimeSettings(NewSettings))
    /\ UserIni' = IF bSaveToConfig
                  THEN SaveToConfig(ApplyDefaultsIfInvalid(UpdateRuntimeSettings(NewSettings)),
                                    UserIni)
                  ELSE UserIni
    /\ UNCHANGED GameIni
    /\ Commit("ApplyRuntimeSettingsFromBlueprint", NewSettings,
              IF bSaveToConfig THEN "true" ELSE "false", Sub, compState)
    /\ ObjectsFrame

\* ApplySettingsFromUI that also saves what it applied to the user file.
ApplySettingsFromUI_AlsoSaves(NewSettings) ==
    /\ bHasLoadedConfig' = TRUE
    /\ RuntimeSettings' = ApplyDefaultsIfInvalid(UpdateFromViewData(
                              Get(bHasLoadedConfig, RuntimeSettings, UserIni, GameIni),
                              NewSettings))
    /\ UserIni' = SaveToConfig(RuntimeSettings', UserIni)
    /\ UNCHANGED GameIni
    /\ Commit("ApplySettingsFromUI", NewSettings, "void", Sub, compState)
    /\ ObjectsFrame

\* UInteractiveObjectManagerRootWidget::ApplySettingsFromUI
ApplySettingsFromUI(NewSettings) ==
    /\ bHasLoadedConfig' = TRUE
    /\ RuntimeSettings' = ApplyDefaultsIfInvalid(UpdateFromViewData(
                              Get(bHasLoadedConfig, RuntimeSettings, UserIni, GameIni),
                              NewSettings))
    /\ UNCHANGED <<UserIni, GameIni>>
    /\ Commit("ApplySettingsFromUI", NewSettings, "void", Sub, compState)
    /\ ObjectsFrame

\* UInteractiveObjectManagerRootWidget::SaveSettingsToIni
SaveSettingsToIni ==
    /\ bHasLoadedConfig' = TRUE
    /\ RuntimeSettings' = Get(bHasLoadedConfig, RuntimeSettings, UserIni, GameIni)
    /\ UserIni' = SaveToConfig(RuntimeSettings', UserIni)
    /\ UNCHANGED GameIni
    /\ Commit("SaveSettingsToIni", 0, "void", Sub, compState)
    /\ ObjectsFrame

\* UInteractiveObjectManagerRootWidget::GetCurrentSettings; the view data
\* it fills is kept as the argument of the operation.
GetCurrentSettings ==
    /\ bHasLoadedConfig' = TRUE
    /\ RuntimeSettings' = Get(bHasLoadedConfig, RuntimeSettings, UserIni, GameIni)
    /\ UNCHANGED <<UserIni, GameIni>>
    /\ Commit("GetCurrentSettings", ToViewData(RuntimeSettings'), "void", Sub, compState)
    /\ ObjectsFrame

\* FInteractiveObjectManagerModule::StartupModule in a new process: the
\* ini files are what the last process left; Get loads them and the
\* module loads them once more, which leaves what one load leaves.
StartupModule ==
    /\ bHasLoadedConfig' = TRUE
    /\ RuntimeSettings' = ApplyDefaultsIfInvalid(LoadFromConfig(UserIni, GameIni))
    /\ UNCHANGED <<UserIni, GameIni>>
    /\ Commit("StartupModule", 0, "void", Sub, compState)
    /\ ObjectsFrame

\* The class SpawnObjectOfType resolves for a spawn type, "None" when it
\* returns before spawning; bHasCube and bHasSphere say which primitive
\* classes the developer settings name, bChooseCube is FMath::RandBool().
ResolveClassToSpawn(SpawnType, bHasCube, bHasSphere, bChooseCube) ==
    IF ~bHasCube /\ ~bHasSphere THEN "None"
    ELSE IF SpawnType = "Cube" THEN (IF bHasCube THEN "Cube" ELSE "None")
    ELSE IF SpawnType = "Sphere" THEN (IF bHasSphere THEN "Sphere" ELSE "None")
    ELSE IF SpawnType = "Random"
    THEN (IF bHasCube /\ bHasSphere THEN (IF bChooseCube THEN "Cube" ELSE "Sphere")
          ELSE IF bHasCube THEN "Cube"
          ELSE "Sphere")
    ELSE "None"

\* UInteractiveObjectManagerSubsystem::SpawnDefaultObject, with the body of
\* SpawnObjectOfType it runs.  bSpawned is false when the engine spawns no
\* actor or the actor carries no interactive component.
SpawnDefaultObject(bHasCube, bHasSphere, bChooseCube, bSpawned, c) ==
    /\ ~bDeinitialized
    /\ Fresh(c)
    /\ NextObjectId <= MaxObjectId
    /\ \E ClassToSpawn \in {ResolveClassToSpawn(RuntimeSettings.DefaultSpawnType,
                                               bHasCube, bHasSphere, bChooseCube)} :
       IF ClassToSpawn = "None" \/ ~bSpawned
       THEN /\ Commit("SpawnDefaultObject", NullPtr, "void", Sub, compState)
            /\ UNCHANGED <<CurrentColor, CurrentScale, CachedManagerSubsystem>>
       ELSE \E R \in {RegisterWithManager(Sub, c, [compState EXCEPT ![c] = "playing"],
                                           bDeinitialized)} :
                /\ CommitAs("SpawnDefaultObject", c, "void", ClassToSpawn, R.S,
                            [compState EXCEPT ![c] = "playing"])
                /\ CachedManagerSubsystem' = [CachedManagerSubsystem EXCEPT ![c] = R.cached]
                /\ CurrentColor' = [CurrentColor EXCEPT
                                      ![c] = ApplyColor(RuntimeSettings.DefaultColor)]
                /\ CurrentScale' = [CurrentScale EXCEPT
                                      ![c] = ApplyScale(RuntimeSettings.DefaultScale[1])]
    /\ UNCHANGED <<settingsVars, threadVars, controllerVars, bDeinitialized>>

\* ---- UInteractiveObjectManagerRootWidget ------------------------------------
\* ManagerSubsystem.IsValid()
ManagerSubsystemIsValid == widget.bManagerSet /\ ~bDeinitialized

\* SynchronizeInitialState on the widget W, the subsystem holding T once
\* GetInteractiveObjectsList has run: one OnObjectsListUpdated and one
\* OnSelectedObjectInfoUpdated.
SynchronizeInitialState(W, T, cs) ==
    LET Synced(event) ==
            [W EXCEPT !.ListEvents = Append(@, ListItems(T.RegisteredObjects, cs)),
                      !.SelectedEvents = Append(@, event),
                      !.DeliveredList = ListItems(T.RegisteredObjects, cs),
                      !.DeliveredSelection =
                          [bHasSelection |-> event.bHasSelection,
                           SelectedObjectId |-> event.SelectedObjectId]]
    IN  Synced(HandleSelectedObjectChanged(TRUE, SelectionMoment(T, cs)))

\* NativeConstruct: without a subsystem it returns early; otherwise it keeps
\* the pointer, binds the two handlers and synchronizes.
NativeConstruct ==
    /\ widget.state \in {"none", "destructed"}
    /\ IF bDeinitialized
       THEN CommitWidget("NativeConstruct", 0, "void", "None", Sub, compState,
                         [widget EXCEPT !.state = "constructed",
                                        !.ListEvents = <<>>,
                                        !.SelectedEvents = <<>>])
       ELSE \E T \in {GetInteractiveObjectsList(Sub, compState)} :
            \E W \in {Deliver([widget EXCEPT !.state = "constructed",
                                             !.bManagerSet = TRUE,
                                             !.bBound = TRUE],
                              T, FALSE)} :
                CommitWidget("NativeConstruct", 0, "void", "None", T, compState,
                             SynchronizeInitialState(W, T, compState))
    /\ ComponentFrame
    /\ RegistryFrame

\* Variant: the handlers stay on the delegates and the pointer is kept.
NativeDestruct_KeepsBinding ==
    /\ widget.state = "constructed"
    /\ CommitWidget("NativeDestruct", 0, "void", "None", Sub, compState,
                    [widget EXCEPT !.state = "destructed",
                                   !.ListEvents = <<>>,
                                   !.SelectedEvents = <<>>])
    /\ ComponentFrame
    /\ RegistryFrame

\* NativeDestruct: RemoveDynamic on both delegates while the subsystem is
\* there, then ManagerSubsystem.Reset().
NativeDestruct ==
    /\ widget.state = "constructed"
    /\ CommitWidget("NativeDestruct", 0, "void", "None", Sub, compState,
                    [widget EXCEPT !.state = "destructed",
                                   !.bBound = IF ManagerSubsystemIsValid THEN FALSE ELSE @,
                                   !.bManagerSet = FALSE,
                                   !.ListEvents = <<>>,
                                   !.SelectedEvents = <<>>])
    /\ ComponentFrame
    /\ RegistryFrame

\* The early return of every Request function when ManagerSubsystem is not
\* valid.
RequestIgnored(nm) ==
    /\ Commit(nm, 0, "void", Sub, compState)
    /\ ComponentFrame
    /\ RegistryFrame

RequestSpawnDefaultObject(bSpawned, c) ==
    IF ManagerSubsystemIsValid
    THEN SpawnDefaultObject(TRUE, TRUE, TRUE, bSpawned, c)
    ELSE RequestIgnored("RequestSpawnDefaultObject")

RequestSpawnObjectOfType(SpawnType, bSpawned, c) ==
    IF ManagerSubsystemIsValid
    THEN SpawnObjectOfType(SpawnType, bSpawned, c)
    ELSE RequestIgnored("RequestSpawnObjectOfType")

RequestSelectObjectById(ObjectId) ==
    IF ManagerSubsystemIsValid
    THEN SelectObjectById(ObjectId)
    ELSE RequestIgnored("RequestSelectObjectById")

RequestApplyColor(NewColor) ==
    IF ManagerSubsystemIsValid
    THEN SetSelectedObjectColor(NewColor)
    ELSE RequestIgnored("RequestApplyColor")

RequestApplyScale(NewUniformScale) ==
    IF ManagerSubsystemIsValid
    THEN SetSelectedObjectUniformScale(NewUniformScale)
    ELSE RequestIgnored("RequestApplyScale")

RequestDeleteSelectedObject ==
    IF ManagerSubsystemIsValid
    THEN DeleteSelectedObject
    ELSE RequestIgnored("RequestDeleteSelectedObject")

\* What the widget is asked to do in the runs explored.
WidgetColors == {"Red"}

WidgetScales == {25000}

WidgetSpawnTypes == {"Sphere"}

\* The components and Ids of those runs.
WidgetComps == 1..NumWidgetComponents

WidgetIds == FirstObjectId..NumWidgetComponents

\* Creation, play and destruction of components.
Lifecycle ==
    \/ \E c \in Comps : PlaceComponent(c)
    \/ \E c \in Comps : BeginPlay(c)
    \/ \E c \in Comps : DestroyComponentOwner(c)
    \/ \E t \in SpawnTypes, b \in BOOLEAN, c \in Comps : SpawnObjectOfType(t, b, c)

\* The registry and its selection: every operation of the subsystem that
\* reads or writes RegisteredObjects or the selection.
Next ==
    \/ Lifecycle
    \/ \E c \in Comps \cup {NullPtr} : RegisterCall(c)
    \/ \E c \in Comps \cup {NullPtr} : UnregisterCall(c)
    \/ GetInteractiveObjectsListCall
    \/ \E id \in INDEX_NONE..(MaxObjectId + 1) : SelectObjectById(id)
    \/ \E i \in -1..NumComponents : SelectObjectByIndex(i)
    \/ ClearSelection
    \/ DeleteSelectedObject
    \/ Deinitialize

Spec == Init /\ [][Next]_vars

\* Editing the selected object: colors and scales change, objects come and
\* go, the selection moves.
NextVisual ==
    \/ \E c \in Comps : PlaceComponent(c)
    \/ \E c \in Comps : DestroyComponentOwner(c)
    \/ \E t \in SpawnTypes, b \in BOOLEAN, c \in Comps : SpawnObjectOfType(t, b, c)
    \/ \E c \in Comps : RegisterCall(c)
    \/ \E id \in FirstObjectId..MaxObjectId : SelectObjectById(id)
    \/ \E col \in Colors : SetSelectedObjectColor(col)
    \/ \E s \in ScaleInputs : SetSelectedObjectUniformScale(s)

SpecVisual == Init /\ [][NextVisual]_vars

\* The settings store: edits of the ini files, loading, saving and the
\* runtime updates.
NextSettings ==
    \/ \E b \in BOOLEAN, contents \in IniContents : EditConfigFile(b, contents)
    \/ LoadFromConfigCall
    \/ SaveToConfigCall
    \/ ApplyDefaultsIfInvalidCall
    \/ \E n \in SettingsInputs : UpdateRuntimeSettingsCall(n)
    \/ \E v \in ViewInputs : UpdateFromViewDataCall(v)
    \/ \E n \in SettingsInputs, b \in BOOLEAN : ApplyRuntimeSettingsFromBlueprint(n, b)
    \/ \E v \in ViewInputs : ApplySettingsFromUI(v)
    \/ SaveSettingsToIni

SpecSettings == Init /\ [][NextSettings]_vars

\* The settings panel of the widget: it reads the current settings, applies
\* what the user entered or what it has just read, and saves; meanwhile the
\* ini files are edited, Blueprint code updates the settings and the
\* process is started anew.
NextViewData ==
    \/ \E b \in BOOLEAN, contents \in IniContents : EditConfigFile(b, contents)
    \/ \E v \in ViewInputs : ApplySettingsFromUI(v)
    \/ op.name = "GetCurrentSettings" /\ ApplySettingsFromUI(op.arg)
    \/ GetCurrentSettings
    \/ SaveSettingsToIni
    \/ \E n \in SettingsInputs : UpdateRuntimeSettingsCall(n)
    \/ StartupModule

SpecViewData == Init /\ [][NextViewData]_vars

\* The settings the spawning runs switch between.
SpawnViewInputs == {v \in ViewInputs : v.DefaultUniformScale \in {0, 12346}}

SpawnSettingsInputs == {n \in SettingsInputs : n.DefaultScale = <<50, 50, 50>>}

\* Spawning with the defaults of the moment.
NextSpawn ==
    \/ \E v \in SpawnViewInputs : ApplySettingsFromUI(v)
    \/ \E n \in SpawnSettingsInputs : UpdateRuntimeSettingsCall(n)
    \/ SaveSettingsToIni
    \/ \E bHasCube, bHasSphere, bChooseCube, bSpawned \in BOOLEAN, c \in Comps :
          SpawnDefaultObject(bHasCube, bHasSphere, bChooseCube, bSpawned, c)

SpecSpawn == Init /\ [][NextSpawn]_vars

\* ---- concurrent calls of the settings object ---------------------------------
\* Every call is cut into the steps other threads can interleave with: taking
\* and releasing SettingsCriticalSection, the copy of one field of a
\* structure, the read or write of one config key.
UpdatingCalls == {"LoadFromConfig", "UpdateRuntimeSettings", "UpdateFromViewData"}

ThreadSettingsInputs ==
    {[DefaultSpawnType |-> "Sphere", DefaultColor |-> "Red", DefaultScale |-> <<20000, 20000, 20000>>],
     [DefaultSpawnType |-> "Random", DefaultColor |-> "Red", DefaultScale |-> <<0, 0, 0>>]}

ThreadViewInputs ==
    {[DefaultSpawnType |-> "Random", DefaultColor |-> "Red", DefaultUniformScale |-> 5000]}

ThreadFrame == UNCHANGED <<compState, CachedManagerSubsystem, CurrentColor,
                           CurrentScale, RegisteredObjects, NextObjectId,
                           SelectedObjectId, SelectedObject, bDeinitialized,
                           lastListChanged, lastSelectedChanged, bListBroadcast,
                           bSelectedBroadcast, listEverChanged, widget, op, pre,
                           controllerVars>>

\* The step a call takes once it holds the mutex.
AfterLock(f) ==
    IF f.call \in {"GetRuntimeSettingsCopy", "SaveToConfig"} THEN "read"
    ELSE IF f.call = "ApplyDefaultsIfInvalid" THEN "check"
    ELSE IF f.call = "UpdateFromViewData" /\ ~f.bSecondBlock THEN "read"
    ELSE "write"

\* A thread enters one of the settings calls.
CallSettings(t, call, NewSettings, InViewData) ==
    /\ pc[t] = "idle"
    /\ call \in UpdatingCalls => updateCount < MaxUpdates
    /\ updateCount' = IF call \in UpdatingCalls THEN updateCount + 1 ELSE updateCount
    /\ frame' = [frame EXCEPT ![t] =
                    [call |-> call,
                     local |-> IF call = "UpdateRuntimeSettings"
                               THEN UpdateRuntimeSettings(NewSettings)
                               ELSE SafeDefaults,
                     view |-> InViewData,
                     i |-> 1,
                     bSecondBlock |-> FALSE,
                     n |-> IF call \in UpdatingCalls THEN updateCount + 1 ELSE 0]]
    /\ pc' = [pc EXCEPT ![t] = IF call = "LoadFromConfig" THEN "load" ELSE "lock"]
    /\ UNCHANGED <<settingsVars, SettingsCriticalSection, returned, updateValue, Editor>>
    /\ ThreadFrame

\* FScopeLock that does not wait for the mutex to be free.
Lock_NoWait(t) ==
    /\ pc[t] = "lock"
    /\ SettingsCriticalSection' = t
    /\ pc' = [pc EXCEPT ![t] = AfterLock(frame[t])]
    /\ UNCHANGED <<settingsVars, frame, returned, updateCount, updateValue, Editor>>
    /\ ThreadFrame

\* FScopeLock Lock(&SettingsCriticalSection)
Lock(t) ==
    /\ pc[t] = "lock"
    /\ SettingsCriticalSection = NoThread
    /\ SettingsCriticalSection' = t
    /\ pc' = [pc EXCEPT ![t] = AfterLock(frame[t])]
    /\ UNCHANGED <<settingsVars, frame, returned, updateCount, updateValue, Editor>>
    /\ ThreadFrame

\* One field of "LocalSettings = RuntimeSettings" (or of the returned copy).
ReadField(t) ==
    /\ pc[t] = "read"
    /\ frame' = [frame EXCEPT
                   ![t].local[Fields[frame[t].i]] = RuntimeSettings[Fields[frame[t].i]],
                   ![t].i = IF frame[t].i = 3 THEN 1 ELSE frame[t].i + 1]
    /\ pc' = [pc EXCEPT ![t] = IF frame[t].i = 3 THEN "unlock" ELSE "read"]
    /\ UNCHANGED <<settingsVars, SettingsCriticalSection, returned, updateCount,
                   updateValue, Editor>>
    /\ ThreadFrame

\* One field of "RuntimeSettings = <local structure>".
WriteField(t) ==
    /\ pc[t] = "write"
    /\ RuntimeSettings' = [RuntimeSettings EXCEPT
                             ![Fields[frame[t].i]] = frame[t].local[Fields[frame[t].i]]]
    /\ updateValue' = IF frame[t].n # 0
                      THEN [updateValue EXCEPT ![frame[t].n] = frame[t].local]
                      ELSE updateValue
    /\ frame' = [frame EXCEPT ![t].i = IF frame[t].i = 3 THEN 1 ELSE frame[t].i + 1]
    /\ pc' = [pc EXCEPT ![t] = IF frame[t].i = 3 THEN "unlock" ELSE "write"]
    /\ UNCHANGED <<UserIni, GameIni, bHasLoadedConfig, SettingsCriticalSection,
                   returned, updateCount, Editor>>
    /\ ThreadFrame

\* ApplyDefaultsIfInvalid inside its lock: the validity test, and
\* ApplySafeDefaults as the writes that follow when it fails.
CheckDefaults(t) ==
    /\ pc[t] = "check"
    /\ frame' = [frame EXCEPT ![t].local = SafeDefaults]
    /\ pc' = [pc EXCEPT ![t] = IF ~RuntimeSettingsIsValid(RuntimeSettings)
                                THEN "write" ELSE "unlock"]
    /\ UNCHANGED <<settingsVars, SettingsCriticalSection, returned, updateCount,
                   updateValue, Editor>>
    /\ ThreadFrame

\* The end of a locked block, and what the call does next.
Unlock(t) ==
    /\ pc[t] = "unlock"
    /\ SettingsCriticalSection' = NoThread
    /\ returned' = IF frame[t].call = "GetRuntimeSettingsCopy"
                   THEN [returned EXCEPT ![t] = frame[t].local]
                   ELSE returned
    /\ IF frame[t].call \in {"GetRuntimeSettingsCopy", "ApplyDefaultsIfInvalid"}
       THEN /\ pc' = [pc EXCEPT ![t] = "idle"]
            /\ frame' = [frame EXCEPT ![t] = IdleFrame]
       ELSE IF frame[t].call = "SaveToConfig"
       THEN /\ pc' = [pc EXCEPT ![t] = "save"]
            /\ UNCHANGED frame
       ELSE IF frame[t].call = "UpdateFromViewData" /\ ~frame[t].bSecondBlock
       THEN /\ pc' = [pc EXCEPT ![t] = "lock"]
            /\ frame' = [frame EXCEPT
                           ![t].local = UpdateFromViewData(frame[t].local, frame[t].view),
                           ![t].bSecondBlock = TRUE]
       ELSE /\ pc' = [pc EXCEPT ![t] = "editor"]
            /\ UNCHANGED frame
    /\ UNCHANGED <<settingsVars, updateCount, updateValue, Editor>>
    /\ ThreadFrame

\* SaveToConfig: SaveSpawnTypeToConfig, SaveColorToConfig, SaveScaleToConfig,
\* one key each.
SaveKey(t) ==
    /\ pc[t] = "save"
    /\ UserIni' = [UserIni EXCEPT ![Fields[frame[t].i]] =
                      SaveToConfig(frame[t].local, UserIni)[Fields[frame[t].i]]]
    /\ IF frame[t].i = 3
       THEN /\ pc' = [pc EXCEPT ![t] = "idle"]
            /\ frame' = [frame EXCEPT ![t] = IdleFrame]
       ELSE /\ frame' = [frame EXCEPT ![t].i = frame[t].i + 1]
            /\ UNCHANGED pc
    /\ UNCHANGED <<RuntimeSettings, GameIni, bHasLoadedConfig, SettingsCriticalSection, returned,
                   updateCount, updateValue, Editor>>
    /\ ThreadFrame

\* LoadFromConfig before its lock: the three loaders, one key each, and the
\* validation of TempSettings after the last one.
LoadKey(t) ==
    /\ pc[t] = "load"
    /\ \E Loaded \in {IF frame[t].i = 1
                      THEN LoadSpawnTypeFromConfig(frame[t].local, UserIni, GameIni)
                      ELSE IF frame[t].i = 2
                      THEN LoadColorFromConfig(frame[t].local, UserIni, GameIni)
                      ELSE LoadScaleFromConfig(frame[t].local, UserIni, GameIni)} :
          frame' = [frame EXCEPT
                      ![t].local = IF frame[t].i = 3 /\ ~RuntimeSettingsIsValid(Loaded)
                                   THEN SafeDefaults ELSE Loaded,
                      ![t].i = IF frame[t].i = 3 THEN 1 ELSE frame[t].i + 1]
    /\ pc' = [pc EXCEPT ![t] = IF frame[t].i = 3 THEN "lock" ELSE "load"]
    /\ UNCHANGED <<settingsVars, SettingsCriticalSection, returned, updateCount,
                   updateValue, Editor>>
    /\ ThreadFrame

\* "Editor_X = RuntimeSettings.X" after the lock was released, one field each.
EditorSync(t) ==
    /\ pc[t] = "editor"
    /\ Editor' = [Editor EXCEPT ![Fields[frame[t].i]] = RuntimeSettings[Fields[frame[t].i]]]
    /\ IF frame[t].i = 3
       THEN /\ pc' = [pc EXCEPT ![t] = "idle"]
            /\ frame' = [frame EXCEPT ![t] = IdleFrame]
       ELSE /\ frame' = [frame EXCEPT ![t].i = frame[t].i + 1]
            /\ UNCHANGED pc
    /\ UNCHANGED <<settingsVars, SettingsCriticalSection, returned, updateCount,
                   updateValue>>
    /\ ThreadFrame

NextThreads ==
    \/ \E t \in Threads :
         \E call \in {"GetRuntimeSettingsCopy", "SaveToConfig", "LoadFromConfig",
                      "ApplyDefaultsIfInvalid"} :
            CallSettings(t, call, SafeDefaults, NoView)
    \/ \E t \in Threads : \E NewSettings \in ThreadSettingsInputs :
         CallSettings(t, "UpdateRuntimeSettings", NewSettings, NoView)
    \/ \E t \in Threads : \E InViewData \in ThreadViewInputs :
         CallSettings(t, "UpdateFromViewData", SafeDefaults, InViewData)
    \/ \E t \in Threads : Lock(t)
    \/ \E t \in Threads : ReadField(t)
    \/ \E t \in Threads : WriteField(t)
    \/ \E t \in Threads : CheckDefaults(t)
    \/ \E t \in Threads : Unlock(t)
    \/ \E t \in Threads : SaveKey(t)
    \/ \E t \in Threads : LoadKey(t)
    \/ \E t \in Threads : EditorSync(t)

SpecThreads == Init /\ [][NextThreads]_vars

\* The root widget over the registry: the widget is constructed and
\* destructed at any time, the player acts through it, and gameplay code
\* places, registers, selects and destroys objects behind its back.
NextWidget ==
    \/ \E c \in WidgetComps : PlaceComponent(c)
    \/ \E c \in WidgetComps : BeginPlay(c)
    \/ \E c \in WidgetComps : DestroyComponentOwner(c)
    \/ \E c \in WidgetComps : RegisterCall(c)
    \/ \E id \in WidgetIds : SelectObjectById(id)
    \/ NativeConstruct
    \/ NativeDestruct
    \/ \E b \in BOOLEAN, c \in WidgetComps : RequestSpawnDefaultObject(b, c)
    \/ \E t \in WidgetSpawnTypes, b \in BOOLEAN, c \in WidgetComps :
          RequestSpawnObjectOfType(t, b, c)
    \/ \E id \in WidgetIds : RequestSelectObjectById(id)
    \/ \E col \in WidgetColors : RequestApplyColor(col)
    \/ \E sc \in WidgetScales : RequestApplyScale(sc)
    \/ RequestDeleteSelectedObject
    \/ Deinitialize

SpecWidget == Init /\ [][NextWidget]_vars

\* ---- the player controller ------------------------------------------------------
\* Angles are in quarter turns, axis values in whole units.
AxisValues == -MaxInput..MaxInput

\* What the player controller leaves alone.
ControllerFrame ==
    UNCHANGED <<compState, CachedManagerSubsystem, CurrentColor, CurrentScale,
                RegisteredObjects, NextObjectId, SelectedObjectId, SelectedObject,
                bDeinitialized, lastListChanged, lastSelectedChanged,
                bListBroadcast, bSelectedBroadcast, listEverChanged, widget,
                op, pre, settingsVars, threadVars>>

\* UKismetMathLibrary::GetForwardVector of a rotation in quarter turns.
GetForwardVector(rot) ==
    IF rot[2] = 1 THEN <<0, 0, 1>>
    ELSE IF rot[2] = -1 THEN <<0, 0, -1>>
    ELSE CASE rot[1] = 0 -> <<1, 0, 0>>
           [] rot[1] = 1 -> <<0, 1, 0>>
           [] rot[1] = 2 -> <<-1, 0, 0>>
           [] rot[1] = 3 -> <<0, -1, 0>>

\* UKismetMathLibrary::GetRightVector of a rotation in quarter turns.
GetRightVector(rot) ==
    CASE rot[1] = 0 -> <<0, 1, 0>>
      [] rot[1] = 1 -> <<-1, 0, 0>>
      [] rot[1] = 2 -> <<0, -1, 0>>
      [] rot[1] = 3 -> <<1, 0, 0>>

\* APawn::AddMovementInput(Direction, ScaleValue) on pending input v.
AddMovementInput(v, Direction, ScaleValue) ==
    [i \in 1..3 |-> v[i] + Direction[i] * ScaleValue]

\* The pending input stays within the range the model follows.
InRange(v) == \A i \in DOMAIN v : v[i] \in AxisValues

\* EnterUiMode that sets the input mode and leaves the cursor as it is.
EnterUiMode_CursorUntouched ==
    /\ UNCHANGED bShowMouseCursor
    /\ InputMode' = "GameAndUI"

\* AIOM_PlayerController::EnterUiMode
EnterUiMode ==
    /\ bShowMouseCursor' = TRUE
    /\ InputMode' = "GameAndUI"

\* AIOM_PlayerController::EnterNavigationMode
EnterNavigationMode ==
    /\ bShowMouseCursor' = FALSE
    /\ InputMode' = "GameOnly"

\* AIOM_PlayerController::BeginPlay, after the constructor of Init.
ControllerBeginPlay ==
    /\ ~bHasBegunPlay
    /\ bHasBegunPlay' = TRUE
    /\ EnterUiMode
    /\ UNCHANGED <<bIsNavigationModeActive, bNavigationHeld, RotationInput,
                   ControlRotation, ControlInputVector, bQuitRequested>>
    /\ ControllerFrame

\* The navigation action is pressed: Started is delivered.
OnNavigationModeStarted ==
    /\ bHasBegunPlay /\ ~bQuitRequested
    /\ ~bNavigationHeld
    /\ bNavigationHeld' = TRUE
    /\ bIsNavigationModeActive' = TRUE
    /\ EnterNavigationMode
    /\ UNCHANGED <<bHasBegunPlay, RotationInput, ControlRotation,
                   ControlInputVector, bQuitRequested>>
    /\ ControllerFrame

\* The navigation action is released: Completed is delivered.
OnNavigationModeCompleted ==
    /\ bHasBegunPlay /\ ~bQuitRequested
    /\ bNavigationHeld
    /\ bNavigationHeld' = FALSE
    /\ bIsNavigationModeActive' = FALSE
    /\ EnterUiMode
    /\ UNCHANGED <<bHasBegunPlay, RotationInput, ControlRotation,
                   ControlInputVector, bQuitRequested>>
    /\ ControllerFrame

\* AIOM_PlayerController::HandleMoveInput
HandleMoveInput(MovementVector, bHasPawn) ==
    /\ bHasBegunPlay /\ ~bQuitRequested
    /\ \E R \in {IF ~bIsNavigationModeActive \/ ~bHasPawn
                  THEN ControlInputVector
                  ELSE AddMovementInput(
                           AddMovementInput(ControlInputVector,
                               GetForwardVector(ControlRotation), MovementVector[2]),
                           GetRightVector(ControlRotation), MovementVector[1])} :
          /\ InRange(R)
          /\ ControlInputVector' = R
    /\ UNCHANGED <<bHasBegunPlay, bIsNavigationModeActive, bShowMouseCursor,
                   InputMode, bNavigationHeld, RotationInput, ControlRotation,
                   bQuitRequested>>
    /\ ControllerFrame

\* AIOM_PlayerController::HandleLookInput
HandleLookInput(LookAxisValue) ==
    /\ bHasBegunPlay /\ ~bQuitRequested
    /\ \E R \in {IF ~bIsNavigationModeActive
                  THEN RotationInput
                  ELSE <<RotationInput[1] + LookAxisValue[1],
                         RotationInput[2] + LookAxisValue[2]>>} :
          /\ InRange(R)
          /\ RotationInput' = R
    /\ UNCHANGED <<bHasBegunPlay, bIsNavigationModeActive, bShowMouseCursor,
                   InputMode, bNavigationHeld, ControlRotation,
                   ControlInputVector, bQuitRequested>>
    /\ ControllerFrame

\* AIOM_PlayerController::HandleVerticalMoveInput
HandleVerticalMoveInput(AxisValue, bHasPawn) ==
    /\ bHasBegunPlay /\ ~bQuitRequested
    /\ \E R \in {IF ~bIsNavigationModeActive \/ AxisValue = 0 \/ ~bHasPawn
                  THEN ControlInputVector
                  ELSE AddMovementInput(ControlInputVector, <<0, 0, 1>>, AxisValue)} :
          /\ InRange(R)
          /\ ControlInputVector' = R
    /\ UNCHANGED <<bHasBegunPlay, bIsNavigationModeActive, bShowMouseCursor,
                   InputMode, bNavigationHeld, RotationInput, ControlRotation,
                   bQuitRequested>>
    /\ ControllerFrame

\* AIOM_PlayerController::HandleExitRequested
HandleExitRequested(bHasWorld) ==
    /\ bHasBegunPlay /\ ~bQuitRequested
    /\ bQuitRequested' = bHasWorld
    /\ UNCHANGED <<bHasBegunPlay, bIsNavigationModeActive, bShowMouseCursor,
                   InputMode, bNavigationHeld, RotationInput, ControlRotation,
                   ControlInputVector>>
    /\ ControllerFrame

\* A frame of the engine: the rotation input of the frame turns the
\* controller (the pitch stops at a quarter turn up or down) and the pawn
\* consumes its pending movement input.
ControllerTick ==
    /\ bHasBegunPlay /\ ~bQuitRequested
    /\ ControlRotation' =
          <<(ControlRotation[1] + RotationInput[1] + 4) % 4,
            Clamp(ControlRotation[2] + RotationInput[2], -1, 1)>>
    /\ RotationInput' = <<0, 0>>
    /\ ControlInputVector' = <<0, 0, 0>>
    /\ UNCHANGED <<bHasBegunPlay, bIsNavigationModeActive, bShowMouseCursor,
                   InputMode, bNavigationHeld, bQuitRequested>>
    /\ ControllerFrame

NextController ==
    \/ ControllerBeginPlay
    \/ OnNavigationModeStarted
    \/ OnNavigationModeCompleted
    \/ \E x \in AxisValues, y \in AxisValues, b \in BOOLEAN :
          HandleMoveInput(<<x, y>>, b)
    \/ \E x \in AxisValues, y \in AxisValues : HandleLookInput(<<x, y>>)
    \/ \E a \in AxisValues, b \in BOOLEAN : HandleVerticalMoveInput(a, b)
    \/ \E b \in BOOLEAN : HandleExitRequested(b)
    \/ ControllerTick

SpecController == Init /\ [][NextController]_vars

\* Objects that die with and without EndPlay while the registry is
\* listed and the selected object is edited and deleted.
NextLiveObjects ==
    \/ \E c \in WidgetComps : PlaceComponent(c)
    \/ \E c \in WidgetComps : BeginPlay(c)
    \/ \E c \in WidgetComps : DestroyComponentOwner(c)
    \/ \E c \in WidgetComps : RegisterCall(c)
    \/ GetInteractiveObjectsListCall
    \/ \E id \in WidgetIds : SelectObjectById(id)
    \/ \E col \in Colors : SetSelectedObjectColor(col)
    \/ \E sc \in ScaleInputs : SetSelectedObjectUniformScale(sc)
    \/ DeleteSelectedObject

SpecLiveObjects == Init /\ [][NextLiveObjects]_vars

\* ---- type invariant -------------------------------------------------------------
TypeOK ==
    /\ compState \in [Comps -> {"none", "created", "playing", "dead"}]
    /\ SelectedObject \in Comps \cup {NullPtr}
    /\ SelectedObjectId \in {INDEX_NONE} \cup (FirstObjectId..MaxObjectId)
    /\ NextObjectId \in FirstObjectId..(MaxObjectId + 1)
    /\ Len(RegisteredObjects) <= NumComponents

\* ---- observations used by the claims ---------------------------------------------
\* The list GetInteractiveObjectsList would return now.
CurrentList == ListItems(RegisteredObjects, compState)

RecordIds(recs) == {recs[i].ObjectId : i \in DOMAIN recs}

RecordComponents(recs) == {recs[i].Component : i \in DOMAIN recs}

\* The operations that run code of the registry to completion.
RegistryOps == {"RegisterInteractiveObject", "UnregisterInteractiveObject",
                "SelectObjectById", "SelectObjectByIndex", "ClearSelection",
                "DeleteSelectedObject", "SpawnObjectOfType",
                "GetInteractiveObjectsList", "BeginPlay"}

\* A registry operation has just completed (a spawn that produced no actor
\* never reaches the registry).
RegistryOpCompleted ==
    /\ op.name \in RegistryOps
    /\ ~(op.name = "SpawnObjectOfType" /\ op.arg = NullPtr)

\* ---- claims ---------------------------------------------------------------------------
\* C1: whenever SelectedObjectId is not INDEX_NONE, exactly one record of
\* RegisteredObjects carries that Id, and the component of that record is the
\* component SelectedObject points to.
C1_SelectionHasOneRecord ==
    SelectedObjectId # INDEX_NONE =>
        /\ Cardinality({i \in DOMAIN RegisteredObjects :
                          RegisteredObjects[i].ObjectId = SelectedObjectId}) = 1
        /\ \A i \in DOMAIN RegisteredObjects :
              RegisteredObjects[i].ObjectId = SelectedObjectId
                 => RegisteredObjects[i].Component = SelectedObject

\* A delete has moved the selection to another of several remaining records.
C1_Witness ==
    /\ op.name = "DeleteSelectedObject"
    /\ op.ret = "true"
    /\ SelectedObjectId # INDEX_NONE
    /\ Len(RegisteredObjects) >= 2

\* C2: after every completed registry operation before Deinitialize, the
\* latest OnObjectsListChanged payload is the list GetInteractiveObjectsList
\* would return now, or nothing was broadcast and the list never changed.
C2_ListBroadcastIsCurrent ==
    (~bDeinitialized /\ RegistryOpCompleted) =>
        \/ bListBroadcast /\ lastListChanged = CurrentList
        \/ ~bListBroadcast /\ ~listEverChanged

\* C3: before Deinitialize, the Id of the latest OnSelectedObjectChanged
\* broadcast is the current SelectedObjectId, or nothing was broadcast and
\* SelectedObjectId is still INDEX_NONE.
C3_SelectionBroadcastIsCurrent ==
    ~bDeinitialized =>
        \/ bSelectedBroadcast /\ lastSelectedChanged = SelectedObjectId
        \/ ~bSelectedBroadcast /\ SelectedObjectId = INDEX_NONE

\* The selection has moved away from the first registered object and back
\* to nothing, each change announced.
C3_Witness ==
    /\ op.name = "ClearSelection"
    /\ op.ret = "true"
    /\ Len(RegisteredObjects) >= 2
    /\ pre.SelectedObjectId = RegisteredObjects[2].ObjectId
    /\ lastSelectedChanged = INDEX_NONE

\* C4: after DeleteSelectedObject has removed the selected object, the first
\* object of the list is selected if objects are left and nothing is selected
\* if none is left, and the selection-changed notification of the delete
\* carries that value.
C4_DeleteSelectsFirst ==
    (op.name = "DeleteSelectedObject" /\ op.ret = "true") =>
        /\ SelectedObjectId = IF CurrentList # <<>> THEN CurrentList[1]
                              ELSE INDEX_NONE
        /\ op.selLog # <<>>
        /\ Last(op.selLog) = SelectedObjectId

\* C5: DeleteSelectedObject called while an object is selected returns true,
\* destroys that object and removes its record, and the deleted Id never
\* comes back to the registry; called while nothing is selected it returns
\* false, changes neither the registry nor the selection and sends nothing.
C5_DeleteState ==
    op.name = "DeleteSelectedObject" =>
        /\ pre.bHasSelection =>
              /\ op.ret = "true"
              /\ compState[pre.SelectedObject] = "dead"
              /\ pre.SelectedObjectId \notin RecordIds(RegisteredObjects)
              /\ \A i \in DOMAIN CurrentList : CurrentList[i] # pre.SelectedObjectId
        /\ pre.SelectedObjectId = INDEX_NONE =>
              /\ op.ret = "false"
              /\ RegisteredObjects = pre.RegisteredObjects
              /\ SelectedObjectId = pre.SelectedObjectId
              /\ SelectedObject = pre.SelectedObject
              /\ op.listLog = <<>>
              /\ op.selLog = <<>>

\* An Id that was handed out and is no longer in the registry stays out.
C5_IdsNeverReturn ==
    \A id \in FirstObjectId..MaxObjectId :
        (id < NextObjectId /\ id \notin RecordIds(RegisteredObjects))
            => id \notin RecordIds(RegisteredObjects')

C6_SelectByIdReturnsChanged ==
    op.name = "SelectObjectById" =>
        (op.ret = "true" <=> SelectedObjectId # pre.SelectedObjectId)

\* C7: SelectObjectById with an Id of no registered object returns false,
\* leaves SelectedObjectId and the registry unchanged and broadcasts no
\* selection-changed notification.
C7_SelectUnknownIdNoEffect ==
    (op.name = "SelectObjectById" /\ op.arg \notin RecordIds(pre.RegisteredObjects)) =>
        /\ op.ret = "false"
        /\ SelectedObjectId = pre.SelectedObjectId
        /\ RegisteredObjects = pre.RegisteredObjects
        /\ op.selLog = <<>>

C10_PlayingIsListed ==
    ~bDeinitialized =>
        \A c \in Comps : compState[c] = "playing" =>
            \E i \in DOMAIN RegisteredObjects :
                /\ RegisteredObjects[i].Component = c
                /\ \E j \in DOMAIN CurrentList :
                      CurrentList[j] = RegisteredObjects[i].ObjectId

C10_EndPlayUnregisters ==
    \A c \in Comps :
        /\ (compState[c] = "playing" /\ compState'[c] = "dead")
              => c \notin RecordComponents(RegisteredObjects')
        /\ (compState[c] = "dead" /\ c \notin RecordComponents(RegisteredObjects))
              => c \notin RecordComponents(RegisteredObjects')

C11_SpawnUsesRuntimeDefaults ==
    (op.name = "SpawnDefaultObject" /\ op.arg # NullPtr) =>
        /\ Len(RegisteredObjects) = Len(pre.RegisteredObjects) + 1
        /\ SubSeq(RegisteredObjects, 1, Len(pre.RegisteredObjects)) = pre.RegisteredObjects
        /\ Last(RegisteredObjects).Component = op.arg
        /\ Last(RegisteredObjects).ObjectId \notin RecordIds(pre.RegisteredObjects)
        /\ op.arg \notin RecordComponents(pre.RegisteredObjects)
        /\ IF pre.RuntimeSettings.DefaultSpawnType = "Random"
           THEN op.cls \in {"Cube", "Sphere"}
           ELSE op.cls = pre.RuntimeSettings.DefaultSpawnType
        /\ CurrentColor[op.arg] = pre.RuntimeSettings.DefaultColor
        /\ CurrentScale[op.arg] = pre.RuntimeSettings.DefaultScale[1]

\* C12: the runtime updates leave both ini files as they were; the user file
\* changes only through SaveToConfig, SaveSettingsToIni or
\* ApplyRuntimeSettingsFromBlueprint with bSaveToConfig, and the program
\* never writes the project file.
C12_UpdatesLeaveConfig ==
    /\ op.name \in {"ApplySettingsFromUI", "UpdateRuntimeSettings",
                    "UpdateFromViewData", "ApplyDefaultsIfInvalid"}
          => (UserIni = pre.UserIni /\ GameIni = pre.GameIni)
    /\ (op.name = "ApplyRuntimeSettingsFromBlueprint" /\ op.ret = "false")
          => (UserIni = pre.UserIni /\ GameIni = pre.GameIni)
    /\ (UserIni # pre.UserIni /\ op.name # "EditConfigFile")
          => \/ op.name \in {"SaveToConfig", "SaveSettingsToIni"}
             \/ op.name = "ApplyRuntimeSettingsFromBlueprint" /\ op.ret = "true"
    /\ GameIni # pre.GameIni => op.name = "EditConfigFile"

\* Apply changed the runtime settings while the user file holds other,
\* earlier saved values.
C12_Witness ==
    /\ op.name = "ApplySettingsFromUI"
    /\ RuntimeSettings # pre.RuntimeSettings
    /\ UserIni # EmptyIni
    /\ UserIni # SaveToConfig(RuntimeSettings, UserIni)

\* C13: a LoadFromConfig that directly follows a SaveToConfig leaves the
\* runtime settings equal to the value that was saved, whatever the project
\* file holds.
C13_Step ==
    (op.name = "SaveToConfig" /\ op'.name = "LoadFromConfig")
        => RuntimeSettings' = RuntimeSettings

C13_SaveThenLoad == [][C13_Step]_vars

\* C14: the runtime settings are always valid: DefaultScale is strictly
\* positive on the three axes and not nearly zero.
C14_RuntimeSettingsValid == RuntimeSettingsIsValid(RuntimeSettings)

\* UpdateRuntimeSettings was handed invalid settings and stored the safe
\* defaults instead.
C14_Witness ==
    /\ op.name = "UpdateRuntimeSettings"
    /\ ~RuntimeSettingsIsValid(op.arg)
    /\ RuntimeSettings = SafeDefaults
    /\ pre.RuntimeSettings # SafeDefaults

\* The uniform scale s as the claim clamps it to 0.1 .. 10.0.
C15_ClampedToRange(sc) == IF sc < MinScale THEN MinScale
                      ELSE IF sc > MaxScale THEN MaxScale ELSE sc

\* C15 as stated: after UpdateFromViewData with any requested scale s the
\* stored scale is (c, c, c), c being s clamped to 0.1 .. 10.0, and type and
\* color are the ones of the view data.
C15_ViewDataClampedAlways ==
    op.name = "UpdateFromViewData" =>
        RuntimeSettings =
            [DefaultSpawnType |-> op.arg.DefaultSpawnType,
             DefaultColor |-> op.arg.DefaultColor,
             DefaultScale |-> <<C15_ClampedToRange(op.arg.DefaultUniformScale),
                                C15_ClampedToRange(op.arg.DefaultUniformScale),
                                C15_ClampedToRange(op.arg.DefaultUniformScale)>>]

\* C15 amended: the same for every requested scale that is a number.
C15_ViewDataClamped ==
    (op.name = "UpdateFromViewData" /\ op.arg.DefaultUniformScale # NaN) =>
        RuntimeSettings =
            [DefaultSpawnType |-> op.arg.DefaultSpawnType,
             DefaultColor |-> op.arg.DefaultColor,
             DefaultScale |-> <<C15_ClampedToRange(op.arg.DefaultUniformScale),
                                C15_ClampedToRange(op.arg.DefaultUniformScale),
                                C15_ClampedToRange(op.arg.DefaultUniformScale)>>]

\* A scale above the range was cut down to 10.0 and replaced other settings.
C15_Witness ==
    /\ op.name = "UpdateFromViewData"
    /\ op.arg.DefaultUniformScale > MaxScale
    /\ RuntimeSettings.DefaultScale = <<MaxScale, MaxScale, MaxScale>>
    /\ pre.RuntimeSettings.DefaultSpawnType # RuntimeSettings.DefaultSpawnType

\* What each key alone asks for: its value when present and valid, its safe
\* default otherwise.
C16_ExpectedSpawnType(user, game) ==
    LET Value == ConfigGetString("DefaultSpawnType", user, game)
    IN  IF Value.kind = "text" /\ TryParseSpawnType(Value.text).ok
        THEN TryParseSpawnType(Value.text).type
        ELSE SafeDefaults.DefaultSpawnType

C16_ExpectedColor(user, game) ==
    LET Value == ConfigGetString("DefaultColor", user, game)
    IN  IF Value.kind = "text" /\ ColorInitFromString(Value.text).ok
        THEN ColorInitFromString(Value.text).color
        ELSE SafeDefaults.DefaultColor

C16_ExpectedScale(user, game) ==
    LET Value == ConfigGetString("DefaultScale", user, game)
    IN  IF Value.kind = "vector"
           /\ RuntimeSettingsIsValid([SafeDefaults EXCEPT !.DefaultScale = Value.v])
        THEN Value.v
        ELSE SafeDefaults.DefaultScale

\* C16: after LoadFromConfig every key holds its own value from the config
\* when that value is present and valid and its safe default otherwise,
\* whatever the other keys contain.
C16_LoadPerKey ==
    op.name = "LoadFromConfig" =>
        /\ RuntimeSettings.DefaultSpawnType = C16_ExpectedSpawnType(pre.UserIni, pre.GameIni)
        /\ RuntimeSettings.DefaultColor = C16_ExpectedColor(pre.UserIni, pre.GameIni)
        /\ RuntimeSettings.DefaultScale = C16_ExpectedScale(pre.UserIni, pre.GameIni)

\* The triples a reader may see: the initial settings and what each update
\* started so far wrote.
C17_CompleteTriples == {SafeDefaults} \cup {updateValue[n] : n \in 1..updateCount}

\* C17: every value GetRuntimeSettingsCopy returned, and every value
\* SaveToConfig is writing out, is the initial settings or the complete
\* triple one single update wrote, never fields of two updates.
C17_SnapshotIsOneUpdate ==
    \A t \in Threads :
        /\ returned[t] \in C17_CompleteTriples
        /\ pc[t] = "save" => frame[t].local \in C17_CompleteTriples

\* A reader is in the middle of its copy, holding the mutex, while another
\* thread waits to write a different triple.
C17_Witness ==
    \E t \in Threads : \E u \in Threads \ {t} :
        /\ frame[t].call = "GetRuntimeSettingsCopy"
        /\ pc[t] = "read" /\ frame[t].i = 2
        /\ SettingsCriticalSection = t
        /\ pc[u] = "lock" /\ AfterLock(frame[u]) = "write"
        /\ frame[u].local # RuntimeSettings
        /\ RuntimeSettings # SafeDefaults

\* The widget is between the end of a NativeConstruct that found the
\* subsystem and NativeDestruct.
C18_Mirroring == widget.state = "constructed" /\ widget.bBound /\ ~bDeinitialized

\* C18: while the widget is constructed, after every completed operation of
\* the subsystem (NativeConstruct's own synchronization included) the list
\* it was last given is the subsystem's object list and the selection it was
\* last given is the subsystem's selection.
C18_WidgetMirrorsRegistry ==
    (C18_Mirroring /\ (RegistryOpCompleted \/ op.name \in {"NativeConstruct", "SpawnDefaultObject"})) =>
        /\ widget.DeliveredList = CurrentList
        /\ widget.DeliveredSelection =
              [bHasSelection |-> GetSelectedObjectInfo(SelectedObjectId,
                                     SelectedObject, compState).bIsValid,
               SelectedObjectId |-> GetSelectedObjectInfo(SelectedObjectId,
                                     SelectedObject, compState).Id]

\* C19: every OnSelectedObjectInfoUpdated event is well formed: without a
\* selection its Id is INDEX_NONE, with one its Id is the subsystem's
\* SelectedObjectId of that moment and the Id of a registered object.
C19_SelectedEventsWellFormed ==
    \A k \in DOMAIN widget.SelectedEvents :
        LET e == widget.SelectedEvents[k]
        IN  /\ ~e.bHasSelection => e.SelectedObjectId = INDEX_NONE
            /\ e.bHasSelection =>
                  /\ e.SelectedObjectId = e.SubsystemSelectedObjectId
                  /\ e.SelectedObjectId \in e.RegisteredIds

\* One operation delivered an event without a selection and then one with a
\* selection (the selected object was deleted and the next one chosen).
C19_Witness ==
    /\ Len(widget.SelectedEvents) >= 2
    /\ \E k \in DOMAIN widget.SelectedEvents : ~widget.SelectedEvents[k].bHasSelection
    /\ \E k \in DOMAIN widget.SelectedEvents : widget.SelectedEvents[k].bHasSelection

\* A step that is one of the widget's Request calls.
C20_RequestStep ==
    \/ \E b \in BOOLEAN, c \in WidgetComps : RequestSpawnDefaultObject(b, c)
    \/ \E t \in WidgetSpawnTypes, b \in BOOLEAN, c \in WidgetComps :
          RequestSpawnObjectOfType(t, b, c)
    \/ \E id \in WidgetIds : RequestSelectObjectById(id)
    \/ \E col \in WidgetColors : RequestApplyColor(col)
    \/ \E sc \in WidgetScales : RequestApplyScale(sc)
    \/ RequestDeleteSelectedObject

C20_Step ==
    widget.state = "destructed" =>
        /\ widget'.state = "destructed" =>
              (widget'.ListEvents = <<>> /\ widget'.SelectedEvents = <<>>)
        /\ C20_RequestStep =>
              UNCHANGED <<RegisteredObjects, NextObjectId, SelectedObjectId,
                          SelectedObject, compState, CurrentColor, CurrentScale>>

\* C20: once NativeDestruct has run, and until the widget is constructed
\* again, no step delivers OnObjectsListUpdated or
\* OnSelectedObjectInfoUpdated, and every Request call leaves the registry,
\* the selection and the objects as they were.
C20_DisconnectedAfterDestruct == [][C20_Step]_vars

\* The widget is destructed, an object is registered and selected, and the
\* registry has just changed behind the widget or a Request was ignored.
C20_Witness ==
    /\ widget.state = "destructed"
    /\ SelectedObjectId # INDEX_NONE
    /\ op.name \in {"RequestDeleteSelectedObject", "BeginPlay"}
    /\ CurrentList # widget.DeliveredList

\* The view data the claim expects back for applied view data v: the type
\* and color of v and its scale clamped to 0.1 .. 10.0.
C21_ExpectedView(v) ==
    [DefaultSpawnType    |-> v.DefaultSpawnType,
     DefaultColor        |-> v.DefaultColor,
     DefaultUniformScale |-> C15_ClampedToRange(v.DefaultUniformScale)]

\* C21 as stated: after ApplySettingsFromUI(v) and no settings update since,
\* GetCurrentSettings returns the type and color of v and the scale of v
\* clamped to 0.1 .. 10.0, and applying the returned view data again leaves
\* the runtime settings as they are.
C21_RoundTripAlways ==
    /\ (op.name = "GetCurrentSettings" /\ pre.applied.has)
           => op.arg = C21_ExpectedView(pre.applied.v)
    /\ (op.name = "ApplySettingsFromUI" /\ pre.applied.has
           /\ op.arg = C21_ExpectedView(pre.applied.v))
           => RuntimeSettings = pre.RuntimeSettings

\* C21 amended: the same for every applied v whose scale is a number.
C21_RoundTrip ==
    /\ (op.name = "GetCurrentSettings" /\ pre.applied.has
           /\ pre.applied.v.DefaultUniformScale # NaN)
           => op.arg = C21_ExpectedView(pre.applied.v)
    /\ (op.name = "ApplySettingsFromUI" /\ pre.applied.has
           /\ pre.applied.v.DefaultUniformScale # NaN
           /\ op.arg = C21_ExpectedView(pre.applied.v))
           => RuntimeSettings = pre.RuntimeSettings

\* View data with a scale above the range was applied, the ini files hold
\* other settings, and GetCurrentSettings still returned the applied ones.
C21_Witness ==
    /\ op.name = "GetCurrentSettings"
    /\ pre.applied.has
    /\ pre.applied.v.DefaultUniformScale > MaxScale
    /\ op.arg.DefaultUniformScale = MaxScale
    /\ ApplyDefaultsIfInvalid(LoadFromConfig(UserIni, GameIni)) # RuntimeSettings

\* C22: after BeginPlay the controller is in navigation mode exactly while
\* the navigation action is held, and the mouse cursor is visible exactly
\* when navigation mode is not active: hidden with input mode GameOnly in
\* navigation mode, shown with input mode GameAndUI in UI mode.
C22_ModeFollowsAction ==
    bHasBegunPlay =>
        /\ bIsNavigationModeActive = bNavigationHeld
        /\ bShowMouseCursor = ~bIsNavigationModeActive
        /\ InputMode = IF bIsNavigationModeActive THEN "GameOnly" ELSE "GameAndUI"

\* The camera was turned in navigation mode and the action was released:
\* the controller is back in UI mode with the cursor shown.
C22_Witness ==
    /\ bHasBegunPlay
    /\ ~bNavigationHeld
    /\ ~bIsNavigationModeActive
    /\ bShowMouseCursor
    /\ ControlRotation # <<0, 0>>

\* The Ids of the entries GetInteractiveObjectsList returns for records recs.
C23_Returned(recs, cs) ==
    {ListItems(recs, cs)[j] : j \in 1..Len(ListItems(recs, cs))}

\* One step of the registry as C23 allows it.
C23_Step ==
    /\ op'.name = "GetInteractiveObjectsList" =>
          \A i \in DOMAIN RegisteredObjects' :
              RegisteredObjects'[i].ObjectId
                  \in C23_Returned(RegisteredObjects', compState')
              => IsValid(RegisteredObjects'[i].Component, compState)
    /\ (SelectedObject' # NullPtr /\ ~IsValid(SelectedObject', compState'))
          => ~GetSelectedObjectInfo(SelectedObjectId', SelectedObject',
                                    compState').bIsValid
    /\ (op'.name \in {"SetSelectedObjectColor", "SetSelectedObjectUniformScale",
                      "DeleteSelectedObject"}
          /\ SelectedObject # NullPtr /\ ~IsValid(SelectedObject, compState))
          => /\ op'.ret = "false"
             /\ CurrentColor' = CurrentColor
             /\ CurrentScale' = CurrentScale
             /\ compState' = compState
             /\ RegisteredObjects' = RegisteredObjects

\* C23: every entry GetInteractiveObjectsList returns refers to a component
\* alive at the time of the call, also after a component was destroyed
\* without being unregistered; while the selected component is not alive
\* GetSelectedObjectInfo reports no selection, and SetSelectedObjectColor,
\* SetSelectedObjectUniformScale and DeleteSelectedObject return false and
\* leave every object and the registry as they were.
C23_OnlyLiveObjects == [][C23_Step]_vars

\* The selected component was destroyed without being unregistered, another
\* object is alive and on record, and an edit of the selection was refused.
C23_Witness ==
    /\ op.name \in {"SetSelectedObjectColor", "SetSelectedObjectUniformScale",
                     "DeleteSelectedObject"}
    /\ op.ret = "false"
    /\ SelectedObject # NullPtr
    /\ ~IsValid(SelectedObject, compState)
    /\ \E i \in DOMAIN RegisteredObjects :
          /\ RegisteredObjects[i].Component # SelectedObject
          /\ IsValid(RegisteredObjects[i].Component, compState)

====
